---- MODULE Spec2Model ----
(***************************************************************************)
(* A model of the graph algorithms of the repository.  Every algorithm is  *)
(* a pure function of its arguments; it is written here as an operator     *)
(* that follows the code statement by statement, and an action per entry   *)
(* point applies it to an input built by the input actions.                *)
(*                                                                         *)
(* A graph (a Python dict of adjacency lists) is the record                *)
(*   [keys |-> the keys in insertion order, adj |-> key -> its list].      *)
(* Keys are inserted in increasing order 0, 1, 2, ...: every other         *)
(* insertion order is a relabelling of the nodes of one of these graphs.   *)
(* A weighted edge is <<target, weight>>, an unweighted edge is the        *)
(* target itself.                                                          *)
(***************************************************************************)
EXTENDS Integers, Sequences, FiniteSets, TLC

VARIABLES
    graph,      \* the graph argument of the graph algorithms
    clauses,    \* the arguments of two_sat_solver
    num_vars,
    num_nodes,  \* the arguments of the spanning tree algorithms
    edges,
    root,       \* the tree argument of the tree algorithms
    self,       \* the object the methods of a class act on
    locals,     \* the local variables of a call in progress
    pc,         \* "input" while the arguments are built, "done" after the call
    call,       \* the entry point called, with its arguments
    result      \* what the call returned or raised

vars == <<graph, clauses, num_vars, num_nodes, edges, root, self, locals, pc, call, result>>

(* The arguments a graph algorithm does not have. *)
notGraph == <<clauses, num_vars, num_nodes, edges, root, self, locals>>

(* Bounds of the model. *)
NumNodes == 3
MaxEdges == 3
MaxTreeEdges == 2
MaxPathEdges == 2
MaxVars == 2
MaxClauses == 2
MaxPathNodes == 4
MaxPairEdges == 2
MaxTreeNodes == 7
MaxAncestorNodes == 5
MaxSetSize == 4

(* The add_edge calls made on one Graph, and the size of a GraphMatrix. *)
MaxCalls == 3
MaxSize == 2

(* The edge weights the inputs draw from. *)
Weights == {-1, 0, 1}

(* The weights of the edges of the spanning tree inputs. *)
TreeWeights == {1, 2}

(* The edge weights of the calls that are run step by step. *)
StepWeights == {-1, 1}

Nodes == 0 .. (NumNodes - 1)

(* The nodes the edge lists of the path searches draw from. *)
PathNodes == 0 .. (MaxPathNodes - 1)

(* float('inf'): larger than every finite distance of the model, and       *)
(* absorbing under Plus.                                                   *)
Inf == 1000

Plus(a, b) == IF a = Inf \/ b = Inf THEN Inf ELSE a + b

Range(s) == {s[i] : i \in 1 .. Len(s)}

(* F applied to the value of x, which is computed once. *)
Eager(F(_), x) == CHOOSE r \in {F(y) : y \in {x}} : TRUE

(* ------------------------------ the graph ------------------------------ *)

EmptyGraphOn(ns) == [keys |-> <<>>, adj |-> [n \in ns |-> <<>>]]

EmptyGraph == EmptyGraphOn(Nodes)

Keys(g) == Range(g.keys)

(* graph.get(u, []) *)
Get(g, u) == IF u \in Keys(g) THEN g.adj[u] ELSE <<>>

NumEdges(g) == LET RECURSIVE Sum(_)
                   Sum(i) == IF i > Len(g.keys) THEN 0
                             ELSE Len(g.adj[g.keys[i]]) + Sum(i + 1)
               IN Sum(1)

(* The keys together with every edge target, of a weighted graph. *)
WeightedVertices(g) ==
    Keys(g) \cup {e[1] : e \in UNION {Range(g.adj[k]) : k \in Keys(g)}}

(* The same of an unweighted graph. *)
Vertices(g) == Keys(g) \cup UNION {Range(g.adj[k]) : k \in Keys(g)}

(* What a call returns: a value, or the exception it raised. *)
Returned(v) == [status |-> "ok", value |-> v]
Raised(e) == [status |-> e, value |-> <<>>]

(* ---------------------------- bellman_ford ----------------------------- *)

(* InitDistances with 0 for every node. *)
InitDistancesZero(vs, start_node) == [v \in vs |-> 0]

(* distances = {v: inf for v in vertices}; distances[start_node] = 0.0 *)
InitDistances(vs, start_node) == [v \in vs |-> IF v = start_node THEN 0 ELSE Inf]

(* The body of "for v, weight in graph[u]" for one edge. *)
BFRelax(st, u, v, weight) ==
    LET new_distance == Plus(st.distances[u], weight)
    IN IF new_distance < st.distances[v]
       THEN [distances |-> [st.distances EXCEPT ![v] = new_distance],
             updated |-> TRUE]
       ELSE st

(* The inner loop of a round: every edge (v, weight) of graph[u] in turn.  *)
RECURSIVE BFRelaxEdges(_, _, _, _)
BFRelaxEdges(st, u, es, i) ==
    IF i > Len(es) THEN st
    ELSE Eager(LAMBDA s : BFRelaxEdges(s, u, es, i + 1),
               BFRelax(st, u, es[i][1], es[i][2]))

(* One round: for u in graph, unreachable vertices skipped. *)
RECURSIVE BFRound(_, _, _)
BFRound(g, st, k) ==
    IF k > Len(g.keys) THEN st
    ELSE LET u == g.keys[k]
         IN Eager(LAMBDA s : BFRound(g, s, k + 1),
                  IF st.distances[u] = Inf THEN st
                  ELSE BFRelaxEdges(st, u, g.adj[u], 1))

(* for iteration in range(num_vertices - 1), ended early by a round that   *)
(* updates nothing.                                                        *)
RECURSIVE BFIterate(_, _, _)
BFIterate(g, distances, n) ==
    IF n <= 0 THEN distances
    ELSE Eager(LAMBDA st : IF ~st.updated THEN st.distances
                           ELSE BFIterate(g, st.distances, n - 1),
               BFRound(g, [distances |-> distances, updated |-> FALSE], 1))

(* The scan after the rounds: some edge can still be relaxed. *)
BFNegativeCycle(g, distances) ==
    \E u \in Keys(g) :
        /\ distances[u] # Inf
        /\ \E i \in 1 .. Len(g.adj[u]) :
              Plus(distances[u], g.adj[u][i][2]) < distances[g.adj[u][i][1]]

bellman_ford(g, start_node) ==
    IF start_node \notin Keys(g) THEN Raised("KeyError")
    ELSE LET vertices == WeightedVertices(g)
         IN Eager(LAMBDA distances :
                      IF BFNegativeCycle(g, distances) THEN Raised("ValueError")
                      ELSE Returned(distances),
                  BFIterate(g, InitDistances(vertices, start_node),
                            Cardinality(vertices) - 1))

(* -------------------------------- spfa --------------------------------- *)

SpfaInit(g, start_node) ==
    LET nodes == WeightedVertices(g)
    IN [distances |-> InitDistances(nodes, start_node),
        queue |-> <<start_node>>,
        in_queue |-> [n \in nodes |-> n = start_node],
        relax_count |-> [n \in nodes |-> 0],
        max_relax |-> IF Cardinality(nodes) - 1 > 0 THEN Cardinality(nodes) - 1 ELSE 0,
        status |-> "running"]

(* SpfaRelaxRaises one relaxation later. *)
SpfaRelaxRaisesLate(st, v) == st.relax_count[v] + 1 > st.max_relax + 1

(* The body of "for v, weight in graph.get(u, [])" for one edge. *)
SpfaRelaxRaises(st, v) == st.relax_count[v] + 1 > st.max_relax

(* SpfaRelax with the node appended whether it is in the queue or not. *)
SpfaRelaxRequeued(st, u, v, weight) ==
    IF Plus(st.distances[u], weight) < st.distances[v]
    THEN IF SpfaRelaxRaises(st, v)
         THEN [st EXCEPT !.distances[v] = Plus(st.distances[u], weight),
                         !.relax_count[v] = @ + 1,
                         !.status = "ValueError"]
         ELSE [st EXCEPT !.distances[v] = Plus(st.distances[u], weight),
                         !.relax_count[v] = @ + 1,
                         !.queue = Append(@, v),
                         !.in_queue[v] = TRUE]
    ELSE st

SpfaRelax(st, u, v, weight) ==
    IF Plus(st.distances[u], weight) < st.distances[v]
    THEN IF SpfaRelaxRaises(st, v)
         THEN [st EXCEPT !.distances[v] = Plus(st.distances[u], weight),
                         !.relax_count[v] = @ + 1,
                         !.status = "ValueError"]
         ELSE [st EXCEPT !.distances[v] = Plus(st.distances[u], weight),
                         !.relax_count[v] = @ + 1,
                         !.queue = IF st.in_queue[v] THEN @ ELSE Append(@, v),
                         !.in_queue[v] = TRUE]
    ELSE st

RECURSIVE SpfaEdges(_, _, _, _)
SpfaEdges(st, u, es, i) ==
    IF i > Len(es) \/ st.status # "running" THEN st
    ELSE Eager(LAMBDA s : SpfaEdges(s, u, es, i + 1),
               SpfaRelax(st, u, es[i][1], es[i][2]))

(* One turn of "while queue": popleft, then the edges of the popped node. *)
SpfaPop(g, st) ==
    LET u == Head(st.queue)
    IN SpfaEdges([st EXCEPT !.queue = Tail(@), !.in_queue[u] = FALSE],
                 u, Get(g, u), 1)

RECURSIVE SpfaLoop(_, _)
SpfaLoop(g, st) ==
    IF st.status # "running" THEN st
    ELSE IF st.queue = <<>> THEN [st EXCEPT !.status = "ok"]
    ELSE Eager(LAMBDA s : SpfaLoop(g, s), SpfaPop(g, st))

spfa(g, start_node) ==
    IF start_node \notin WeightedVertices(g) THEN Raised("ValueError")
    ELSE Eager(LAMBDA st : IF st.status = "ok" THEN Returned(st.distances)
                           ELSE Raised(st.status),
               SpfaLoop(g, SpfaInit(g, start_node)))

(* ------------------------------ dijkstra ------------------------------- *)

(* The vertex collection raises at the first negative weight it meets. *)
HasNegativeWeight(g) ==
    \E k \in Keys(g) : \E i \in 1 .. Len(g.adj[k]) : g.adj[k][i][2] < 0

(* Python's order of two tuples of the same length, such as the            *)
(* (distance, vertex) entries of the heap.                                 *)
TupleLess(a, b) ==
    \E i \in 1 .. Len(a) : a[i] < b[i] /\ \A j \in 1 .. (i - 1) : a[j] = b[j]

(* heapq.heappop: the position of a least entry of the heap, whose         *)
(* entries the model keeps as a sequence; equal entries are the same       *)
(* tuple, so which of them is popped cannot be observed.                   *)
HeapMinIndex(pq) ==
    CHOOSE i \in 1 .. Len(pq) : \A j \in 1 .. Len(pq) : ~TupleLess(pq[j], pq[i])

RemoveAt(s, i) == SubSeq(s, 1, i - 1) \o SubSeq(s, i + 1, Len(s))

(* DijkstraRelax with the distance of u left out of the new distance. *)
DijkstraRelaxWeightOnly(st, u, v, weight) ==
    IF weight < st.distances[v]
    THEN [st EXCEPT !.distances[v] = weight, !.pq = Append(@, <<weight, v>>)]
    ELSE st

(* The body of "for v, weight in graph.get(u, [])" for one edge. *)
DijkstraRelax(st, u, v, weight) ==
    LET new_distance == Plus(st.distances[u], weight)
    IN IF new_distance < st.distances[v]
       THEN [st EXCEPT !.distances[v] = new_distance,
                       !.pq = Append(@, <<new_distance, v>>)]
       ELSE st

RECURSIVE DijkstraEdges(_, _, _, _)
DijkstraEdges(st, u, es, i) ==
    IF i > Len(es) THEN st
    ELSE Eager(LAMBDA s : DijkstraEdges(s, u, es, i + 1),
               DijkstraRelax(st, u, es[i][1], es[i][2]))

(* One turn of "while pq". *)
DijkstraPop(g, st) ==
    LET m == HeapMinIndex(st.pq)
        current_dist == st.pq[m][1]
        u == st.pq[m][2]
        popped == [st EXCEPT !.pq = RemoveAt(@, m)]
    IN IF u \in st.visited THEN popped
       ELSE LET marked == [popped EXCEPT !.visited = @ \cup {u}]
            IN IF current_dist > st.distances[u] THEN marked
               ELSE DijkstraEdges(marked, u, Get(g, u), 1)

RECURSIVE DijkstraLoop(_, _)
DijkstraLoop(g, st) ==
    IF st.pq = <<>> THEN st
    ELSE Eager(LAMBDA s : DijkstraLoop(g, s), DijkstraPop(g, st))

(* The number of heappop of the loop from the state st on. *)
RECURSIVE DijkstraPops(_, _)
DijkstraPops(g, st) ==
    IF st.pq = <<>> THEN 0
    ELSE Eager(LAMBDA s : 1 + DijkstraPops(g, s), DijkstraPop(g, st))

(* The state before the loop. *)
DijkstraInit(g, start_node) ==
    [distances |-> InitDistances(WeightedVertices(g), start_node),
     pq |-> << <<0, start_node>> >>,
     visited |-> {}]

(* The run without the test of the weights. *)
DijkstraRunUnvalidated(g, start_node) ==
    IF start_node \notin Keys(g)
    THEN [status |-> "KeyError", value |-> <<>>, recorded |-> FALSE, pops |-> 0]
    ELSE [status |-> "ok",
          value |-> DijkstraLoop(g, DijkstraInit(g, start_node)).distances,
          recorded |-> TRUE,
          pops |-> DijkstraPops(g, DijkstraInit(g, start_node))]

(* The call from its first line to its end: what it returns or raises,    *)
(* whether it made distances, and the number of its heappop.               *)
DijkstraRun(g, start_node) ==
    IF start_node \notin Keys(g)
    THEN [status |-> "KeyError", value |-> <<>>, recorded |-> FALSE, pops |-> 0]
    ELSE IF HasNegativeWeight(g)
    THEN [status |-> "ValueError", value |-> <<>>, recorded |-> FALSE, pops |-> 0]
    ELSE [status |-> "ok",
          value |-> DijkstraLoop(g, DijkstraInit(g, start_node)).distances,
          recorded |-> TRUE,
          pops |-> DijkstraPops(g, DijkstraInit(g, start_node))]

dijkstra(g, start_node) ==
    Eager(LAMBDA run : [status |-> run.status, value |-> run.value],
          DijkstraRun(g, start_node))

(* --------------------------- floyd_warshall ---------------------------- *)

(* distances[key] = value on a dict: the key is added when it is new. *)
DictSet(d, key, value) ==
    [p \in DOMAIN d \cup {key} |-> IF p = key THEN value ELSE d[p]]

(* for neighbor, weight in graph[node]: distances[(node, neighbor)] = weight *)
RECURSIVE FWSeedEdges(_, _, _, _)
FWSeedEdges(d, node, es, i) ==
    IF i > Len(es) THEN d
    ELSE Eager(LAMBDA s : FWSeedEdges(s, node, es, i + 1),
               DictSet(d, <<node, es[i][1]>>, es[i][2]))

RECURSIVE FWSeed(_, _, _)
FWSeed(g, d, n) ==
    IF n > Len(g.keys) THEN d
    ELSE LET node == g.keys[n]
         IN Eager(LAMBDA s : FWSeed(g, s, n + 1),
                  FWSeedEdges(DictSet(d, <<node, node>>, 0), node, g.adj[node], 1))

(* The body of the triple loop. *)
FWRelax(d, i, j, k) ==
    IF Plus(d[<<i, k>>], d[<<k, j>>]) < d[<<i, j>>]
    THEN [d EXCEPT ![<<i, j>>] = Plus(d[<<i, k>>], d[<<k, j>>])]
    ELSE d

(* for j in nodes, for i in nodes and for k in nodes, by position in nodes. *)
RECURSIVE FWLoopJ(_, _, _, _, _)
FWLoopJ(nodes, d, k, i, j) ==
    IF j > Len(nodes) THEN d
    ELSE Eager(LAMBDA s : FWLoopJ(nodes, s, k, i, j + 1),
               FWRelax(d, nodes[i], nodes[j], nodes[k]))

RECURSIVE FWLoopI(_, _, _, _)
FWLoopI(nodes, d, k, i) ==
    IF i > Len(nodes) THEN d
    ELSE Eager(LAMBDA s : FWLoopI(nodes, s, k, i + 1), FWLoopJ(nodes, d, k, i, 1))

RECURSIVE FWLoop(_, _, _)
FWLoop(nodes, d, k) ==
    IF k > Len(nodes) THEN d
    ELSE Eager(LAMBDA s : FWLoop(nodes, s, k + 1), FWLoopI(nodes, d, k, 1))

floyd_warshall(g) ==
    LET nodes == g.keys
        seeded == FWSeed(g, [p \in Keys(g) \X Keys(g) |-> Inf], 1)
    IN Eager(LAMBDA distances :
                 IF \E node \in Keys(g) : distances[<<node, node>>] < 0
                 THEN Raised("ValueError")
                 ELSE Returned(distances),
             FWLoop(nodes, seeded, 1))

(* ----------------------------- kosaraju_scc ---------------------------- *)

RECURSIVE dfs_first_pass(_, _, _)
RECURSIVE DfsFirstNeighbors(_, _, _, _)

(* dfs_first_pass(node, visited, stack), st being [visited, stack]: the    *)
(* node is marked, its unvisited neighbours are explored, then the node is *)
(* appended (post-order).                                                  *)
dfs_first_pass(g, node, st) ==
    Eager(LAMBDA s : [s EXCEPT !.stack = Append(@, node)],
          DfsFirstNeighbors(g, Get(g, node), 1,
                            [st EXCEPT !.visited = @ \cup {node}]))

(* for neighbor in graph.get(node, []) *)
DfsFirstNeighbors(g, ns, i, st) ==
    IF i > Len(ns) THEN st
    ELSE Eager(LAMBDA s : DfsFirstNeighbors(g, ns, i + 1, s),
               IF ns[i] \notin st.visited THEN dfs_first_pass(g, ns[i], st)
               ELSE st)

RECURSIVE dfs_second_pass(_, _, _)
RECURSIVE DfsSecondNeighbors(_, _, _, _)

(* dfs_second_pass(node, visited, component, reversed_graph), st being     *)
(* [visited, component].                                                   *)
dfs_second_pass(rg, node, st) ==
    DfsSecondNeighbors(rg, Get(rg, node), 1,
                       [visited |-> st.visited \cup {node},
                        component |-> Append(st.component, node)])

DfsSecondNeighbors(rg, ns, i, st) ==
    IF i > Len(ns) THEN st
    ELSE Eager(LAMBDA s : DfsSecondNeighbors(rg, ns, i + 1, s),
               IF ns[i] \notin st.visited THEN dfs_second_pass(rg, ns[i], st)
               ELSE st)

(* reversed_g[neighbor].append(node), the key made when it is missing. *)
RevAppend(rg, neighbor, node) ==
    [keys |-> IF neighbor \in Keys(rg) THEN rg.keys ELSE Append(rg.keys, neighbor),
     adj |-> [rg.adj EXCEPT ![neighbor] = Append(@, node)]]

RECURSIVE RevEdges(_, _, _, _)
RevEdges(rg, node, ns, i) ==
    IF i > Len(ns) THEN rg
    ELSE Eager(LAMBDA r : RevEdges(r, node, ns, i + 1), RevAppend(rg, ns[i], node))

RECURSIVE RevNodes(_, _, _)
RevNodes(g, rg, k) ==
    IF k > Len(g.keys) THEN rg
    ELSE Eager(LAMBDA r : RevNodes(g, r, k + 1),
               RevEdges(rg, g.keys[k], g.adj[g.keys[k]], 1))

(* The graph as it is: what a reversal that reverses nothing returns. *)
NotReversed(g) == g

(* reverse_graph of Kosarajus_algorithm.py: every key of g is a key. *)
reverse_graph(g) ==
    RevNodes(g, [keys |-> g.keys, adj |-> [n \in DOMAIN g.adj |-> <<>>]], 1)

(* reverse_graph of 2SAT_proble.py: a defaultdict, the edge targets only. *)
reverse_graph_defaultdict(g) == RevNodes(g, EmptyGraphOn(DOMAIN g.adj), 1)

(* for node in graph: if node not in visited: dfs_first_pass(...) *)
RECURSIVE FirstPass(_, _, _)
FirstPass(g, k, st) ==
    IF k > Len(g.keys) THEN st
    ELSE Eager(LAMBDA s : FirstPass(g, k + 1, s),
               IF g.keys[k] \notin st.visited THEN dfs_first_pass(g, g.keys[k], st)
               ELSE st)

(* sccs.insert(0, component) *)
SccsPrepend(sccs, component) == <<component>> \o sccs

(* sccs.append(component) *)
SccsAppend(sccs, component) == Append(sccs, component)

(* while finish_stack: node = finish_stack.pop(); ..., st being            *)
(* [visited, sccs].                                                        *)
RECURSIVE SecondPass(_, _, _)
SecondPass(rg, finish_stack, st) ==
    IF finish_stack = <<>> THEN st.sccs
    ELSE LET node == finish_stack[Len(finish_stack)]
             rest == SubSeq(finish_stack, 1, Len(finish_stack) - 1)
         IN Eager(LAMBDA s : SecondPass(rg, rest, s),
                  IF node \notin st.visited
                  THEN Eager(LAMBDA r : [visited |-> r.visited,
                                         sccs |-> SccsAppend(st.sccs, r.component)],
                             dfs_second_pass(rg, node, [visited |-> st.visited,
                                                        component |-> <<>>]))
                  ELSE st)

(* The three steps, on the reversed graph rg of g. *)
KosarajuSteps(g, rg) ==
    Eager(LAMBDA first : SecondPass(rg, first.stack, [visited |-> {}, sccs |-> <<>>]),
          FirstPass(g, 1, [visited |-> {}, stack |-> <<>>]))

(* kosaraju_scc of Kosarajus_algorithm.py *)
kosaraju_scc(g) ==
    Eager(LAMBDA reversed_graph : KosarajuSteps(g, reversed_graph), reverse_graph(g))

(* kosaraju_scc of 2SAT_proble.py *)
two_sat_kosaraju_scc(g) ==
    Eager(LAMBDA reversed_graph : KosarajuSteps(g, reversed_graph),
          reverse_graph_defaultdict(g))

(* --------------------------- topological_sort -------------------------- *)

(* The orders in which "for v in vertices" can run through the set. *)
IterationOrders(S) ==
    {order \in [1 .. Cardinality(S) -> S] : Range(order) = S}

(* return None *)
ReturnedNone == [status |-> "None", value |-> <<>>]

(* in_degree[v] += 1 for every edge u -> v *)
InDegree(g) ==
    [v \in Vertices(g) |->
        Cardinality({e \in UNION {{u} \X (DOMAIN g.adj[u]) : u \in Keys(g)} :
                        g.adj[e[1]][e[2]] = v})]

(* The body of "for v in graph.get(u, [])" of topological_sort_kahn, st    *)
(* being [in_degree, queue, topo_order].                                   *)
KahnVisit(st, v) ==
    LET degree == st.in_degree[v] - 1
    IN [st EXCEPT !.in_degree[v] = degree,
                  !.queue = IF degree = 0 THEN Append(@, v) ELSE @]

RECURSIVE KahnNeighbors(_, _, _)
KahnNeighbors(st, ns, i) ==
    IF i > Len(ns) THEN st
    ELSE Eager(LAMBDA s : KahnNeighbors(s, ns, i + 1), KahnVisit(st, ns[i]))

(* One iteration of "while queue". *)
KahnPop(g, st) ==
    LET u == Head(st.queue)
    IN KahnNeighbors([st EXCEPT !.queue = Tail(@),
                                !.topo_order = Append(@, u)],
                     Get(g, u), 1)

RECURSIVE KahnLoop(_, _)
KahnLoop(g, st) ==
    IF st.queue = <<>> THEN st
    ELSE Eager(LAMBDA s : KahnLoop(g, s), KahnPop(g, st))

(* if len(topo_order) == len(vertices): the unconditional return *)
KahnReturnAlways(g, topo_order) == Returned(topo_order)

(* if len(topo_order) == len(vertices): return topo_order; else None *)
KahnReturn(g, topo_order) ==
    IF Len(topo_order) = Cardinality(Vertices(g)) THEN Returned(topo_order)
    ELSE ReturnedNone

(* order is the order in which the set "vertices" is iterated. *)
topological_sort_kahn(g, order) ==
    LET in_degree == InDegree(g)
    IN Eager(LAMBDA s : KahnReturn(g, s.topo_order),
             KahnLoop(g, [in_degree |-> in_degree,
                          queue |-> SelectSeq(order, LAMBDA v : in_degree[v] = 0),
                          topo_order |-> <<>>]))

RECURSIVE TopoDfs(_, _, _)
RECURSIVE TopoDfsNeighbors(_, _, _, _)

(* dfs(u) of topological_sort_dfs, st being [state, topo_order, has_cycle] *)
TopoDfs(g, u, st) ==
    IF st.has_cycle THEN st
    ELSE IF st.state[u] = 1 THEN [st EXCEPT !.has_cycle = TRUE]
    ELSE IF st.state[u] = 2 THEN st
    ELSE Eager(LAMBDA s : [s EXCEPT !.state[u] = 2,
                                    !.topo_order = Append(@, u)],
               TopoDfsNeighbors(g, Get(g, u), 1, [st EXCEPT !.state[u] = 1]))

TopoDfsNeighbors(g, ns, i, st) ==
    IF i > Len(ns) THEN st
    ELSE Eager(LAMBDA s : TopoDfsNeighbors(g, ns, i + 1, s), TopoDfs(g, ns[i], st))

(* for vertex in vertices: if state[vertex] == 0: dfs(vertex); the loop    *)
(* is left as soon as has_cycle is set.                                    *)
RECURSIVE TopoDfsAll(_, _, _, _)
TopoDfsAll(g, order, k, st) ==
    IF k > Len(order) THEN st
    ELSE IF st.state[order[k]] # 0 THEN TopoDfsAll(g, order, k + 1, st)
    ELSE Eager(LAMBDA s : IF s.has_cycle THEN s ELSE TopoDfsAll(g, order, k + 1, s),
               TopoDfs(g, order[k], st))

Reverse(s) == [i \in 1 .. Len(s) |-> s[Len(s) + 1 - i]]

topological_sort_dfs(g, order) ==
    Eager(LAMBDA s : IF s.has_cycle THEN ReturnedNone
                     ELSE Returned(Reverse(s.topo_order)),
          TopoDfsAll(g, order, 1, [state |-> [v \in Vertices(g) |-> 0],
                                   topo_order |-> <<>>,
                                   has_cycle |-> FALSE]))

RECURSIVE CycleDfs(_, _, _)
RECURSIVE CycleDfsNeighbors(_, _, _, _)

(* dfs(u) of has_cycle, st being [state, found]: found is what dfs returns *)
CycleDfs(g, u, st) ==
    IF st.state[u] = 1 THEN [st EXCEPT !.found = TRUE]
    ELSE IF st.state[u] = 2 THEN st
    ELSE Eager(LAMBDA s : IF s.found THEN s ELSE [s EXCEPT !.state[u] = 2],
               CycleDfsNeighbors(g, Get(g, u), 1, [st EXCEPT !.state[u] = 1]))

(* for v in graph.get(u, []): if dfs(v): return True *)
CycleDfsNeighbors(g, ns, i, st) ==
    IF i > Len(ns) THEN st
    ELSE Eager(LAMBDA s : IF s.found THEN s ELSE CycleDfsNeighbors(g, ns, i + 1, s),
               CycleDfs(g, ns[i], st))

RECURSIVE CycleDfsAll(_, _, _, _)
CycleDfsAll(g, order, k, st) ==
    IF k > Len(order) THEN st
    ELSE IF st.state[order[k]] # 0 THEN CycleDfsAll(g, order, k + 1, st)
    ELSE Eager(LAMBDA s : IF s.found THEN s ELSE CycleDfsAll(g, order, k + 1, s),
               CycleDfs(g, order[k], st))

has_cycle(g, order) ==
    CycleDfsAll(g, order, 1, [state |-> [v \in Vertices(g) |-> 0],
                              found |-> FALSE]).found

(* ------------------------- all_topological_sorts ----------------------- *)

(* saved_degrees.append(in_degree[neighbor]); in_degree[neighbor] -= 1,    *)
(* for every neighbour in turn; st is [in_degree, saved_degrees].          *)
RECURSIVE SaveAndReduce(_, _, _)
SaveAndReduce(st, ns, i) ==
    IF i > Len(ns) THEN st
    ELSE Eager(LAMBDA s : SaveAndReduce(s, ns, i + 1),
               [in_degree |-> [st.in_degree EXCEPT ![ns[i]] = @ - 1],
                saved_degrees |-> Append(st.saved_degrees, st.in_degree[ns[i]])])

(* for i, neighbor in enumerate(...): in_degree[neighbor] = saved_degrees[i] *)
RECURSIVE RestoreDegrees(_, _, _, _)
RestoreDegrees(in_degree, saved_degrees, ns, i) ==
    IF i > Len(ns) THEN in_degree
    ELSE Eager(LAMBDA d : RestoreDegrees(d, saved_degrees, ns, i + 1),
               [in_degree EXCEPT ![ns[i]] = saved_degrees[i]])

RECURSIVE backtrack(_, _, _)
RECURSIVE BacktrackLoop(_, _, _, _)

(* The body of "for v in vertices" for a vertex that is chosen: st is      *)
(* [in_degree, current_order, result].                                     *)
BacktrackChoose(g, order, v, st) ==
    Eager(LAMBDA reduced :
              Eager(LAMBDA after :
                        [in_degree |-> [RestoreDegrees(after.in_degree,
                                                       reduced.saved_degrees,
                                                       Get(g, v), 1)
                                            EXCEPT ![v] = 0],
                         current_order |-> SubSeq(after.current_order, 1,
                                                  Len(after.current_order) - 1),
                         result |-> after.result],
                    backtrack(g, order,
                              [in_degree |-> reduced.in_degree,
                               current_order |-> Append(st.current_order, v),
                               result |-> st.result])),
          SaveAndReduce([in_degree |-> [st.in_degree EXCEPT ![v] = -1],
                         saved_degrees |-> <<>>],
                        Get(g, v), 1))

(* for v in vertices: if in_degree[v] == 0 and v not in current_order *)
BacktrackLoop(g, order, k, st) ==
    IF k > Len(order) THEN st
    ELSE Eager(LAMBDA s : BacktrackLoop(g, order, k + 1, s),
               IF st.in_degree[order[k]] = 0 /\ order[k] \notin Range(st.current_order)
               THEN BacktrackChoose(g, order, order[k], st)
               ELSE st)

backtrack(g, order, st) ==
    IF Len(st.current_order) = Len(order)
    THEN [st EXCEPT !.result = Append(@, st.current_order)]
    ELSE BacktrackLoop(g, order, 1, st)

(* order is the order in which the set "vertices" is iterated. *)
all_topological_sorts(g, order) ==
    backtrack(g, order, [in_degree |-> InDegree(g),
                         current_order |-> <<>>,
                         result |-> <<>>]).result

(* ------------------------- breadth_first_search ------------------------ *)

(* The same without visited.add(start_node). *)
BfsInitUnvisited(start_node) ==
    [visited |-> {}, order |-> <<>>, queue |-> <<start_node>>]

(* visited, order and queue before the loop. *)
BfsInit(start_node) ==
    [visited |-> {start_node}, order |-> <<>>, queue |-> <<start_node>>]

(* BfsVisit with the neighbour put at the front of the queue. *)
BfsVisitFront(st, neighbor) ==
    IF neighbor \notin st.visited
    THEN [st EXCEPT !.visited = @ \cup {neighbor}, !.queue = <<neighbor>> \o @]
    ELSE st

(* BfsVisit without visited.add(neighbor). *)
BfsVisitUnmarked(st, neighbor) ==
    IF neighbor \notin st.visited
    THEN [st EXCEPT !.queue = Append(@, neighbor)]
    ELSE st

(* if neighbor not in visited: visited.add(neighbor); queue.append(neighbor) *)
BfsVisit(st, neighbor) ==
    IF neighbor \notin st.visited
    THEN [st EXCEPT !.visited = @ \cup {neighbor}, !.queue = Append(@, neighbor)]
    ELSE st

RECURSIVE BfsNeighbors(_, _, _)
BfsNeighbors(st, ns, i) ==
    IF i > Len(ns) THEN st
    ELSE Eager(LAMBDA s : BfsNeighbors(s, ns, i + 1), BfsVisit(st, ns[i]))

(* One iteration of "while queue". *)
BfsStep(g, st) ==
    LET current_node == Head(st.queue)
    IN BfsNeighbors([st EXCEPT !.queue = Tail(@),
                               !.order = Append(@, current_node)],
                    Get(g, current_node), 1)

RECURSIVE BfsLoop(_, _)
BfsLoop(g, st) ==
    IF st.queue = <<>> THEN st
    ELSE Eager(LAMBDA s : BfsLoop(g, s), BfsStep(g, st))

breadth_first_search(g, start_node) == BfsLoop(g, BfsInit(start_node)).order

(* -------------------------- depth_first_search ------------------------- *)

RECURSIVE depth_first_search(_, _, _)
RECURSIVE DfsNeighbors(_, _, _, _)

(* The loop left after its first neighbour. *)
DfsFirstNeighborOnly(g, ns, i, st) ==
    IF i > Len(ns) \/ i > 1 THEN st
    ELSE Eager(LAMBDA s : DfsNeighbors(g, ns, i + 1, s),
               IF ns[i] \notin st.visited THEN depth_first_search(g, ns[i], st)
               ELSE st)

(* for neighbor in graph.get(start_node, []): if neighbor not in visited:  *)
(* depth_first_search(graph, neighbor, visited)                            *)
DfsNeighbors(g, ns, i, st) ==
    IF i > Len(ns) THEN st
    ELSE Eager(LAMBDA s : DfsNeighbors(g, ns, i + 1, s),
               IF ns[i] \notin st.visited THEN depth_first_search(g, ns[i], st)
               ELSE st)

(* One invocation, st being the set visited together with the list of the  *)
(* nodes whose neighbour list an invocation has iterated, in that order.   *)
depth_first_search(g, start_node, st) ==
    DfsNeighbors(g, Get(g, start_node), 1,
                 [visited |-> st.visited \cup {start_node},
                  expanded |-> Append(st.expanded, start_node)])

(* visited = set(), when the caller passes none. *)
DfsVisitedNone == [visited |-> {}, expanded |-> <<>>]

(* -------------------------- dijkstra_with_path ------------------------- *)

(* The same without predecessors[v] = u. *)
PathRelaxNoPredecessor(st, u, v, weight) ==
    LET new_distance == Plus(st.distances[u], weight)
    IN IF new_distance < st.distances[v]
       THEN [st EXCEPT !.distances[v] = new_distance,
                       !.pq = Append(@, <<new_distance, v>>)]
       ELSE st

(* The body of "for v, weight in graph.get(u, [])" for one edge, which     *)
(* records the predecessor too.                                            *)
PathRelax(st, u, v, weight) ==
    LET new_distance == Plus(st.distances[u], weight)
    IN IF new_distance < st.distances[v]
       THEN [st EXCEPT !.distances[v] = new_distance,
                       !.predecessors = DictSet(@, v, u),
                       !.pq = Append(@, <<new_distance, v>>)]
       ELSE st

RECURSIVE PathEdges(_, _, _, _)
PathEdges(st, u, es, i) ==
    IF i > Len(es) THEN st
    ELSE Eager(LAMBDA s : PathEdges(s, u, es, i + 1),
               PathRelax(st, u, es[i][1], es[i][2]))

(* One turn of "while pq", st being [distances, predecessors, pq, visited, *)
(* pops, broken]: pops counts the turns, broken is set by the break.       *)
PathPop(g, st, end_node) ==
    LET m == HeapMinIndex(st.pq)
        current_dist == st.pq[m][1]
        u == st.pq[m][2]
        popped == [st EXCEPT !.pq = RemoveAt(@, m), !.pops = @ + 1]
    IN IF u = end_node THEN [popped EXCEPT !.broken = TRUE]
       ELSE IF u \in st.visited THEN popped
       ELSE LET marked == [popped EXCEPT !.visited = @ \cup {u}]
            IN IF current_dist > st.distances[u] THEN marked
               ELSE PathEdges(marked, u, Get(g, u), 1)

RECURSIVE PathLoop(_, _, _)
PathLoop(g, st, end_node) ==
    IF st.pq = <<>> \/ st.broken THEN st
    ELSE Eager(LAMBDA s : PathLoop(g, s, end_node), PathPop(g, st, end_node))

(* while current != start_node: path.append(current); ...: the path from   *)
(* the end node back ("ok"), or the stop at a node without predecessor     *)
(* ("none"); the walk is given up ("endless") after more steps than there  *)
(* are predecessors.                                                       *)
RECURSIVE PathBack(_, _, _, _, _)
PathBack(predecessors, start_node, current, path, fuel) ==
    IF current = start_node
    THEN [status |-> "ok", path |-> Append(path, start_node)]
    ELSE IF current \notin DOMAIN predecessors THEN [status |-> "none", path |-> path]
    ELSE IF fuel = 0 THEN [status |-> "endless", path |-> path]
    ELSE PathBack(predecessors, start_node, predecessors[current],
                  Append(path, current), fuel - 1)

(* The reconstruction of the path and the return. *)
PathReturn(st, start_node, end_node) ==
    IF st.distances[end_node] = Inf THEN Returned(<<Inf, <<>>>>)
    ELSE LET back == PathBack(st.predecessors, start_node, end_node, <<>>,
                              Cardinality(DOMAIN st.predecessors))
         IN IF back.status = "none" THEN Returned(<<Inf, <<>>>>)
            ELSE IF back.status = "endless" THEN Raised("endless")
            ELSE Returned(<<st.distances[end_node], Reverse(back.path)>>)

(* The state before the loop. *)
PathInit(g, start_node) ==
    [distances |-> InitDistances(WeightedVertices(g), start_node),
     predecessors |-> <<>>,
     pq |-> << <<0, start_node>> >>,
     visited |-> {},
     pops |-> 0,
     broken |-> FALSE]

(* The call from its first line to its end: what it returns or raises,    *)
(* whether it made distances, and the number of its heappop.               *)
PathRun(g, start_node, end_node) ==
    LET NoWork(r) == [status |-> r.status, value |-> r.value,
                      recorded |-> FALSE, pops |-> 0]
    IN IF start_node \notin Keys(g) THEN NoWork(Raised("KeyError"))
       ELSE IF HasNegativeWeight(g) THEN NoWork(Raised("ValueError"))
       ELSE IF end_node \notin WeightedVertices(g) THEN NoWork(Returned(<<Inf, <<>>>>))
       ELSE Eager(LAMBDA st :
                      LET r == PathReturn(st, start_node, end_node)
                      IN [status |-> r.status, value |-> r.value,
                          recorded |-> TRUE, pops |-> st.pops],
                  PathLoop(g, PathInit(g, start_node), end_node))

dijkstra_with_path(g, start_node, end_node) ==
    Eager(LAMBDA run : [status |-> run.status, value |-> run.value],
          PathRun(g, start_node, end_node))

(* ---------------------------- two_sat_solver --------------------------- *)

(* The literals of the variables 1 .. MaxVars: x is x, NOT x is -x. *)
Literals == {l \in (0 - MaxVars) .. MaxVars : l # 0}

(* graph[key].append(value) on the defaultdict. *)
ImplicationAppend(g, key, value) ==
    [keys |-> IF key \in Keys(g) THEN g.keys ELSE Append(g.keys, key),
     adj |-> [g.adj EXCEPT ![key] = Append(@, value)]]

(* for a, b in clauses: graph[-a].append(b); graph[-b].append(a) *)
RECURSIVE ImplicationClauses(_, _, _)
ImplicationClauses(cs, g, i) ==
    IF i > Len(cs) THEN g
    ELSE Eager(LAMBDA s : ImplicationClauses(cs, s, i + 1),
               ImplicationAppend(ImplicationAppend(g, 0 - cs[i][1], cs[i][2]),
                                 0 - cs[i][2], cs[i][1]))

implication_graph(cs, nv) == ImplicationClauses(cs, EmptyGraphOn(Literals), 1)

(* component_id[node] = idx for every node of every component, the last    *)
(* assignment standing; component_id.get(node, -1) (idx counted from 0).   *)
ComponentIdGet(sccs, node) ==
    LET ids == {idx \in DOMAIN sccs : node \in Range(sccs[idx])}
    IN IF ids = {} THEN -1
       ELSE (CHOOSE idx \in ids : \A other \in ids : other <= idx) - 1

(* var_comp == neg_var_comp *)
SameComponentOrAbsent(sccs, var) ==
    ComponentIdGet(sccs, var) = ComponentIdGet(sccs, 0 - var)

(* var_comp != -1 and var_comp == neg_var_comp *)
SameComponent(sccs, var) ==
    /\ ComponentIdGet(sccs, var) # -1
    /\ ComponentIdGet(sccs, var) = ComponentIdGet(sccs, 0 - var)

two_sat_solver(cs, nv) ==
    Eager(LAMBDA sccs : ~ \E var \in 1 .. nv : SameComponent(sccs, var),
          two_sat_kosaraju_scc(implication_graph(cs, nv)))

(* ------------------------------ DisjointSet ---------------------------- *)

(* DisjointSet(n) *)
DisjointSetInit(n) == [parent |-> [u \in 0 .. (n - 1) |-> u],
                       rank |-> [u \in 0 .. (n - 1) |-> 0]]

(* find(u), with the path compression: the set after it and the root. *)
RECURSIVE DisjointSetFind(_, _)
DisjointSetFind(ds, u) ==
    IF ds.parent[u] # u
    THEN Eager(LAMBDA r : [ds |-> [r.ds EXCEPT !.parent[u] = r.root], root |-> r.root],
               DisjointSetFind(ds, ds.parent[u]))
    ELSE [ds |-> ds, root |-> u]

(* DisjointSetLink without the linking of two roots of equal rank. *)
DisjointSetLinkNoTie(ds, root_u, root_v) ==
    IF root_u = root_v THEN ds
    ELSE IF ds.rank[root_u] > ds.rank[root_v]
         THEN [ds EXCEPT !.parent[root_v] = root_u]
    ELSE IF ds.rank[root_u] < ds.rank[root_v]
         THEN [ds EXCEPT !.parent[root_u] = root_v]
    ELSE ds

(* The linking of union(u, v), of the two roots found. *)
DisjointSetLink(ds, root_u, root_v) ==
    IF root_u = root_v THEN ds
    ELSE IF ds.rank[root_u] > ds.rank[root_v]
         THEN [ds EXCEPT !.parent[root_v] = root_u]
    ELSE IF ds.rank[root_u] < ds.rank[root_v]
         THEN [ds EXCEPT !.parent[root_u] = root_v]
    ELSE [ds EXCEPT !.parent[root_v] = root_u, !.rank[root_u] = @ + 1]

(* union(u, v) *)
DisjointSetUnion(ds, u, v) ==
    Eager(LAMBDA fu :
              Eager(LAMBDA fv : DisjointSetLink(fv.ds, fu.root, fv.root),
                    DisjointSetFind(fu.ds, v)),
          DisjointSetFind(ds, u))

(* -------------------------- kruskals_algorithm ------------------------- *)

(* The list as it is: what a sort that is left out returns. *)
NotSorted(es) == es

(* edges.sort(key=lambda x: x[2]): the stable sort, by insertion of each   *)
(* edge after the edges that are not heavier.                              *)
SortByWeight(es) ==
    LET RECURSIVE Insert(_, _)
        Insert(sorted, e) ==
            IF sorted = <<>> THEN <<e>>
            ELSE IF sorted[Len(sorted)][3] <= e[3] THEN Append(sorted, e)
            ELSE Append(Insert(SubSeq(sorted, 1, Len(sorted) - 1), e),
                        sorted[Len(sorted)])
        RECURSIVE Sort(_)
        Sort(n) == IF n = 0 THEN <<>> ELSE Insert(Sort(n - 1), es[n])
    IN Sort(Len(es))

(* The body of "for u, v, weight in edges", st being                       *)
(* [disjoint_set, mst_edges].                                              *)
KruskalEdge(st, e) ==
    Eager(LAMBDA fu :
              Eager(LAMBDA fv :
                        IF fu.root # fv.root
                        THEN [disjoint_set |-> DisjointSetUnion(fv.ds, e[1], e[2]),
                              mst_edges |-> Append(st.mst_edges, e)]
                        ELSE [st EXCEPT !.disjoint_set = fv.ds],
                    DisjointSetFind(fu.ds, e[2])),
          DisjointSetFind(st.disjoint_set, e[1]))

RECURSIVE KruskalLoop(_, _, _)
KruskalLoop(es, st, i) ==
    IF i > Len(es) THEN st
    ELSE Eager(LAMBDA s : KruskalLoop(es, s, i + 1), KruskalEdge(st, es[i]))

(* The caller's list after the call, and the list returned. *)
kruskals_algorithm(n, es) ==
    Eager(LAMBDA sorted :
              [edges |-> sorted,
               mst_edges |-> KruskalLoop(sorted, [disjoint_set |-> DisjointSetInit(n),
                                                  mst_edges |-> <<>>], 1).mst_edges],
          SortByWeight(es))

(* --------------------------- primes_algorithm -------------------------- *)

(* adjacency_list[u].append((weight, v)); adjacency_list[v].append((weight, u)) *)
RECURSIVE PrimAdjacency(_, _, _)
PrimAdjacency(es, adjacency_list, i) ==
    IF i > Len(es) THEN adjacency_list
    ELSE Eager(LAMBDA a : PrimAdjacency(es, a, i + 1),
               LET first == [adjacency_list EXCEPT
                                ![es[i][1]] = Append(@, <<es[i][3], es[i][2]>>)]
               IN [first EXCEPT ![es[i][2]] = Append(@, <<es[i][3], es[i][1]>>)])

(* for edge in adjacency_list[current_node]: the push of the unvisited. *)
RECURSIVE PrimPush(_, _, _, _)
PrimPush(st, current_node, es, i) ==
    IF i > Len(es) THEN st
    ELSE Eager(LAMBDA s : PrimPush(s, current_node, es, i + 1),
               IF ~st.visited[es[i][2]]
               THEN [st EXCEPT !.min_heap = Append(@, <<es[i][1], es[i][2], current_node>>)]
               ELSE st)

(* One iteration of "while min_heap", st being [visited, mst_edges,        *)
(* min_heap]; heappop takes the least (weight, node, parent).              *)
PrimPop(adjacency_list, st) ==
    LET i == HeapMinIndex(st.min_heap)
        entry == st.min_heap[i]
        popped == [st EXCEPT !.min_heap = RemoveAt(@, i)]
    IN IF st.visited[entry[2]] THEN popped
       ELSE PrimPush([popped EXCEPT
                         !.visited[entry[2]] = TRUE,
                         !.mst_edges = IF entry[3] # -1
                                       THEN Append(@, <<entry[3], entry[2], entry[1]>>)
                                       ELSE @],
                     entry[2], adjacency_list[entry[2]], 1)

RECURSIVE PrimLoop(_, _)
PrimLoop(adjacency_list, st) ==
    IF st.min_heap = <<>> THEN st
    ELSE Eager(LAMBDA s : PrimLoop(adjacency_list, s), PrimPop(adjacency_list, st))

(* visited[0] of the first entry raises IndexError when there is no node.  *)
primes_algorithm(n, es) ==
    IF n = 0 THEN Raised("IndexError")
    ELSE Eager(LAMBDA adjacency_list :
                   Returned(PrimLoop(adjacency_list,
                                     [visited |-> [u \in 0 .. (n - 1) |-> FALSE],
                                      mst_edges |-> <<>>,
                                      min_heap |-> <<<<0, 0, -1>>>>]).mst_edges),
               PrimAdjacency(es, [u \in 0 .. (n - 1) |-> <<>>], 1))

(* ---------------------------- eularian_path ---------------------------- *)

(* for u, v in edges: degree[u] += 1; degree[v] += 1 *)
RECURSIVE DegreeLoop(_, _, _)
DegreeLoop(degree, es, i) ==
    IF i > Len(es) THEN degree
    ELSE Eager(LAMBDA d : DegreeLoop([d EXCEPT ![es[i][2]] = @ + 1], es, i + 1),
               [degree EXCEPT ![es[i][1]] = @ + 1])

(* sum(1 for deg in degree if deg % 2 != 0) *)
odd_count(degree) == Cardinality({i \in DOMAIN degree : degree[i] % 2 # 0})

(* has_eularian_path with only the count 0 accepted. *)
HasEularianCircuit(n, es) ==
    odd_count(DegreeLoop([i \in 0 .. n - 1 |-> 0], es, 1)) = 0

has_eularian_path(n, es) ==
    Eager(LAMBDA c : c = 0 \/ c = 2,
          odd_count(DegreeLoop([i \in 0 .. n - 1 |-> 0], es, 1)))

(* The defaultdict of deques: graph[u].append(v); graph[v].append(u) *)
RECURSIVE EulerAdjacency(_, _, _)
EulerAdjacency(g, es, i) ==
    IF i > Len(es) THEN g
    ELSE Eager(LAMBDA h : EulerAdjacency([h EXCEPT ![es[i][2]] = Append(@, es[i][1])],
                                         es, i + 1),
               [g EXCEPT ![es[i][1]] = Append(@, es[i][2])])

(* The first node of odd degree, node 0 when there is none. *)
EulerStart(g, n) ==
    IF \E i \in 0 .. n - 1 : Len(g[i]) % 2 # 0
    THEN CHOOSE i \in 0 .. n - 1 :
            /\ Len(g[i]) % 2 # 0
            /\ \A j \in 0 .. i - 1 : Len(g[j]) % 2 = 0
    ELSE 0

(* deque.remove(x): the first occurrence of x is removed. *)
RemoveFirst(s, x) ==
    RemoveAt(s, CHOOSE i \in DOMAIN s : s[i] = x /\ \A j \in 1 .. i - 1 : s[j] # x)

(* One turn of "while stack". *)
EulerStep(st) ==
    LET u == st.stack[Len(st.stack)] IN
    IF st.graph[u] # <<>>
    THEN LET v == Head(st.graph[u])
             popped == [st.graph EXCEPT ![u] = Tail(@)]
         IN [graph |-> [popped EXCEPT ![v] = RemoveFirst(@, u)],
             stack |-> Append(st.stack, v),
             path |-> st.path]
    ELSE [graph |-> st.graph,
          stack |-> SubSeq(st.stack, 1, Len(st.stack) - 1),
          path |-> Append(st.path, u)]

RECURSIVE EulerLoop(_)
EulerLoop(st) ==
    IF st.stack = <<>> THEN st ELSE Eager(LAMBDA s : EulerLoop(s), EulerStep(st))

find_eularian_path(n, es) ==
    IF ~has_eularian_path(n, es) THEN <<>>
    ELSE Eager(LAMBDA g : Reverse(EulerLoop([graph |-> g,
                                             stack |-> <<EulerStart(g, n)>>,
                                             path |-> <<>>]).path),
               EulerAdjacency([v \in PathNodes |-> <<>>], es, 1))

(* ---------------------------- hamilton_path ---------------------------- *)

(* The defaultdict of lists: graph[u].append(v); graph[v].append(u) *)
HamAdjacency(es) == EulerAdjacency([v \in PathNodes |-> <<>>], es, 1)

RECURSIVE HamBacktrack(_, _, _)
RECURSIVE HamNeighbors(_, _, _, _, _)

(* The loop with a neighbour taken whether it is in the path or not. *)
HamNeighborsRevisit(g, n, path, ns, i) ==
    IF i > Len(ns) THEN [found |-> FALSE, path |-> path]
    ELSE Eager(LAMBDA r : IF r.found THEN r
                          ELSE HamNeighbors(g, n, path, ns, i + 1),
               HamBacktrack(g, n, Append(path, ns[i])))

(* for neighbor in graph[last_node]: if neighbor not in path: append it,   *)
(* return True if backtrack(path), else pop it                             *)
HamNeighbors(g, n, path, ns, i) ==
    IF i > Len(ns) THEN [found |-> FALSE, path |-> path]
    ELSE IF ns[i] \notin Range(path)
    THEN Eager(LAMBDA r : IF r.found THEN r
                          ELSE HamNeighbors(g, n, path, ns, i + 1),
               HamBacktrack(g, n, Append(path, ns[i])))
    ELSE HamNeighbors(g, n, path, ns, i + 1)

(* backtrack(path): whether it returns True, and the list it leaves. *)
HamBacktrack(g, n, path) ==
    IF Len(path) = n THEN [found |-> TRUE, path |-> path]
    ELSE HamNeighbors(g, n, path, g[path[Len(path)]], 1)

(* for start_node in range(num_nodes) *)
RECURSIVE HamStarts(_, _, _)
HamStarts(g, n, start_node) ==
    IF start_node >= n THEN [found |-> FALSE, path |-> <<>>]
    ELSE Eager(LAMBDA r : IF r.found THEN r ELSE HamStarts(g, n, start_node + 1),
               HamBacktrack(g, n, <<start_node>>))

has_hamiltonian_path(n, es) == HamStarts(HamAdjacency(es), n, 0).found

find_hamiltonian_path(n, es) ==
    Eager(LAMBDA r : IF r.found THEN r.path ELSE <<>>, HamStarts(HamAdjacency(es), n, 0))

(* ------------------------------ the trees ------------------------------ *)

(* A tree of TreeNode objects is the record [children |-> the list of the  *)
(* children of every node]: the nodes are numbered 1, 2, ... in the order  *)
(* of their construction, node 1 is the root, and a node's value is its    *)
(* number.  None is 0.                                                     *)
None == 0

TreeNodes(t) == DOMAIN t.children

Max(a, b) == IF a > b THEN a ELSE b

(* ---------------------------- tree_diameter ---------------------------- *)

(* The two largest heights with only the largest one kept up to date. *)
TopOne(max_heights, child_height) ==
    IF child_height > max_heights[1] THEN <<child_height, max_heights[1]>>
    ELSE max_heights

(* if child_height > max_heights[0]: ... elif child_height > max_heights[1] *)
TopTwo(max_heights, child_height) ==
    IF child_height > max_heights[1] THEN <<child_height, max_heights[1]>>
    ELSE IF child_height > max_heights[2] THEN <<max_heights[1], child_height>>
    ELSE max_heights

RECURSIVE height_and_diameter(_, _, _)

(* for child in node.children, with the nonlocal diameter carried along *)
RECURSIVE HeightChildren(_, _, _, _)
HeightChildren(t, cs, i, st) ==
    IF i > Len(cs) THEN st
    ELSE Eager(LAMBDA r : HeightChildren(t, cs, i + 1,
                              [max_heights |-> TopTwo(st.max_heights, r.height),
                               diameter |-> r.diameter]),
               height_and_diameter(t, cs[i], st.diameter))

(* The height returned, and the nonlocal diameter after the invocation. *)
height_and_diameter(t, node, diameter) ==
    IF node = None THEN [height |-> 0, diameter |-> diameter]
    ELSE Eager(LAMBDA st :
                   [height |-> st.max_heights[1] + 1,
                    diameter |-> Max(st.diameter,
                                     st.max_heights[1] + st.max_heights[2])],
               HeightChildren(t, t.children[node], 1,
                              [max_heights |-> <<0, 0>>, diameter |-> diameter]))

tree_diameter(t) == height_and_diameter(t, 1, 0).diameter

(* ----------------------------- longest_path ---------------------------- *)

(* The attributes of the nodes as TreeNode.__init__ leaves them. *)
InitAttributes(t) ==
    [max_length_from_children |-> [v \in TreeNodes(t) |-> 0],
     second_max_length_from_children |-> [v \in TreeNodes(t) |-> 0],
     max_length_from_parent |-> [v \in TreeNodes(t) |-> 0]]

RECURSIVE calculate_max_lengths_from_children(_, _, _)

(* for child in node.children, with the attributes carried along *)
RECURSIVE MaxLengthsChildren(_, _, _, _)
MaxLengthsChildren(t, cs, i, st) ==
    IF i > Len(cs) THEN st
    ELSE Eager(LAMBDA r : MaxLengthsChildren(t, cs, i + 1,
                              [max_lengths |-> TopTwo(st.max_lengths, r.length),
                               attrs |-> r.attrs]),
               calculate_max_lengths_from_children(t, cs[i], st.attrs))

(* The length returned, and the attributes after the invocation. *)
calculate_max_lengths_from_children(t, node, attrs) ==
    IF node = None THEN [length |-> 0, attrs |-> attrs]
    ELSE Eager(LAMBDA st :
                   [length |-> st.max_lengths[1] + 1,
                    attrs |-> [st.attrs EXCEPT
                        !.max_length_from_children[node] = st.max_lengths[1],
                        !.second_max_length_from_children[node] = st.max_lengths[2]]],
               MaxLengthsChildren(t, t.children[node], 1,
                                  [max_lengths |-> <<0, 0>>, attrs |-> attrs]))

(* child.max_length_from_parent with the longest child path of the parent  *)
(* taken whether or not it runs through the child.                         *)
FromParentThroughChild(attrs, node, child) ==
    Max(attrs.max_length_from_children[node] + 1,
        attrs.max_length_from_parent[node] + 1)

(* The value child.max_length_from_parent is set to. *)
FromParent(attrs, node, child) ==
    IF attrs.max_length_from_children[node] = attrs.max_length_from_children[child] + 1
    THEN Max(attrs.second_max_length_from_children[node] + 1,
             attrs.max_length_from_parent[node] + 1)
    ELSE Max(attrs.max_length_from_children[node] + 1,
             attrs.max_length_from_parent[node] + 1)

RECURSIVE calculate_max_lengths_from_parent(_, _, _)

(* for child in node.children *)
RECURSIVE MaxLengthsParent(_, _, _, _, _)
MaxLengthsParent(t, node, cs, i, attrs) ==
    IF i > Len(cs) THEN attrs
    ELSE Eager(LAMBDA a : MaxLengthsParent(t, node, cs, i + 1, a),
               calculate_max_lengths_from_parent(t, cs[i],
                   [attrs EXCEPT !.max_length_from_parent[cs[i]] =
                                     FromParent(attrs, node, cs[i])]))

calculate_max_lengths_from_parent(t, node, attrs) ==
    IF node = None THEN attrs
    ELSE MaxLengthsParent(t, node, t.children[node], 1, attrs)

RECURSIVE collect_longest_paths(_, _, _, _)

(* for child in node.children *)
RECURSIVE CollectChildren(_, _, _, _, _)
CollectChildren(t, cs, i, attrs, longest_paths) ==
    IF i > Len(cs) THEN longest_paths
    ELSE Eager(LAMBDA d : CollectChildren(t, cs, i + 1, attrs, d),
               collect_longest_paths(t, cs[i], attrs, longest_paths))

(* longest_paths[node.value] = max(...), the value of a node its number *)
collect_longest_paths(t, node, attrs, longest_paths) ==
    IF node = None THEN longest_paths
    ELSE CollectChildren(t, t.children[node], 1, attrs,
             (node :> Max(attrs.max_length_from_children[node],
                          attrs.max_length_from_parent[node])) @@ longest_paths)

calculate_longest_paths(t) ==
    Eager(LAMBDA below :
              Eager(LAMBDA attrs : collect_longest_paths(t, 1, attrs, <<>>),
                    calculate_max_lengths_from_parent(t, 1,
                        [below.attrs EXCEPT !.max_length_from_parent[1] = 0])),
          calculate_max_lengths_from_children(t, 1, InitAttributes(t)))

(* ------------------------ lowest_common_ancestor ----------------------- *)

RECURSIVE find_path(_, _, _, _)

(* for child in root.children: if find_path(child, target, path): return True *)
RECURSIVE FindPathChildren(_, _, _, _, _)
FindPathChildren(t, cs, i, target, path) ==
    IF i > Len(cs) THEN [found |-> FALSE, path |-> path]
    ELSE Eager(LAMBDA r : IF r.found THEN r
                          ELSE FindPathChildren(t, cs, i + 1, target, r.path),
               find_path(t, cs[i], target, path))

(* find_path without path.pop() *)
FindPathNoPop(t, node, target, path) ==
    IF node = None THEN [found |-> FALSE, path |-> path]
    ELSE IF node = target THEN [found |-> TRUE, path |-> Append(path, node)]
    ELSE FindPathChildren(t, t.children[node], 1, target, Append(path, node))

(* What find_path returns, and the list it leaves. *)
find_path(t, node, target, path) ==
    IF node = None THEN [found |-> FALSE, path |-> path]
    ELSE IF node = target THEN [found |-> TRUE, path |-> Append(path, node)]
    ELSE Eager(LAMBDA r : IF r.found THEN r
                          ELSE [found |-> FALSE,
                                path |-> SubSeq(r.path, 1, Len(r.path) - 1)],
               FindPathChildren(t, t.children[node], 1, target, Append(path, node)))

(* for u, v in zip(path1, path2): if u == v: lca = u, else: break *)
RECURSIVE LcaScan(_, _, _, _)
LcaScan(path1, path2, i, lca) ==
    IF i > Len(path1) \/ i > Len(path2) THEN lca
    ELSE IF path1[i] = path2[i] THEN LcaScan(path1, path2, i + 1, path1[i])
    ELSE lca

lowest_common_ancestor(t, node, node1, node2) ==
    Eager(LAMBDA r1 :
              IF ~r1.found THEN ReturnedNone
              ELSE Eager(LAMBDA r2 :
                             IF ~r2.found THEN ReturnedNone
                             ELSE Eager(LAMBDA lca : IF lca = None THEN ReturnedNone
                                                     ELSE Returned(lca),
                                        LcaScan(r1.path, r2.path, 1, None)),
                         find_path(t, node, node2, <<>>)),
          find_path(t, node, node1, <<>>))

(* ------------------------- the inputs and calls ------------------------ *)

(* No tree is built for the algorithms that take none. *)
NoTree == [children |-> <<>>]

(* No object is made, and no call is in progress. *)
NoObject == [class |-> "none"]
NoLocals == [op |-> "none"]

NoCall == [op |-> "none"]
NoResult == [status |-> "none", value |-> <<>>]

InitGraph ==
    /\ graph = EmptyGraph
    /\ clauses = <<>>
    /\ num_vars = 0
    /\ num_nodes = 0
    /\ edges = <<>>
    /\ root = NoTree
    /\ self = NoObject
    /\ locals = NoLocals
    /\ pc = "input"
    /\ call = NoCall
    /\ result = NoResult

(* graph[k] = [] for the next key. *)
AddKey ==
    /\ pc = "input"
    /\ Len(graph.keys) < NumNodes
    /\ graph' = [graph EXCEPT !.keys = Append(@, Len(graph.keys))]
    /\ UNCHANGED <<notGraph, pc, call, result>>

(* graph[u].append((v, weight)) *)
AddWeightedEdge(u, v, weight) ==
    /\ pc = "input"
    /\ u \in Keys(graph)
    /\ NumEdges(graph) < MaxEdges
    /\ graph' = [graph EXCEPT !.adj[u] = Append(@, <<v, weight>>)]
    /\ UNCHANGED <<notGraph, pc, call, result>>

CallSpfa(start_node) ==
    /\ pc = "input"
    /\ pc' = "done"
    /\ call' = [op |-> "spfa", start_node |-> start_node]
    /\ result' = spfa(graph, start_node)
    /\ UNCHANGED <<graph, notGraph>>

CallBellmanFord(start_node) ==
    /\ pc = "input"
    /\ pc' = "done"
    /\ call' = [op |-> "bellman_ford", start_node |-> start_node]
    /\ result' = bellman_ford(graph, start_node)
    /\ UNCHANGED <<graph, notGraph>>

CallDijkstra(start_node) ==
    /\ pc = "input"
    /\ pc' = "done"
    /\ call' = [op |-> "dijkstra", start_node |-> start_node]
    /\ result' = dijkstra(graph, start_node)
    /\ UNCHANGED <<graph, notGraph>>

CallFloydWarshall ==
    /\ pc = "input"
    /\ pc' = "done"
    /\ call' = [op |-> "floyd_warshall"]
    /\ result' = floyd_warshall(graph)
    /\ UNCHANGED <<graph, notGraph>>

NextWeighted ==
    \/ AddKey
    \/ \E u \in Nodes, v \in Nodes, weight \in Weights : AddWeightedEdge(u, v, weight)
    \/ \E start_node \in Nodes : CallSpfa(start_node)
    \/ \E start_node \in Nodes : CallBellmanFord(start_node)
    \/ \E start_node \in Nodes : CallDijkstra(start_node)
    \/ CallFloydWarshall

SpecWeighted == InitGraph /\ [][NextWeighted]_vars

(* The graphs without a negative weight, and the calls of dijkstra. *)
NextNonNegative ==
    \/ AddKey
    \/ \E u \in Nodes, v \in Nodes, weight \in {w \in Weights : w >= 0} :
          AddWeightedEdge(u, v, weight)
    \/ \E start_node \in Nodes : CallDijkstra(start_node)

SpecNonNegative == InitGraph /\ [][NextNonNegative]_vars

CallDijkstraWithPath(start_node, end_node) ==
    /\ pc = "input"
    /\ pc' = "done"
    /\ call' = [op |-> "dijkstra_with_path", start_node |-> start_node,
                end_node |-> end_node]
    /\ result' = dijkstra_with_path(graph, start_node, end_node)
    /\ UNCHANGED <<graph, notGraph>>

(* The graphs of few edges, of any weight, and the calls of dijkstra and   *)
(* of dijkstra_with_path.                                                  *)
NextDijkstra ==
    \/ AddKey
    \/ \E u \in Nodes, v \in Nodes, weight \in Weights :
          NumEdges(graph) < MaxPathEdges /\ AddWeightedEdge(u, v, weight)
    \/ \E start_node \in Nodes : CallDijkstra(start_node)
    \/ \E start_node \in Nodes, end_node \in Nodes :
          CallDijkstraWithPath(start_node, end_node)

SpecDijkstra == InitGraph /\ [][NextDijkstra]_vars

(* The graphs of few edges, and the calls of the three single-source       *)
(* algorithms.                                                             *)
NextSingleSource ==
    \/ AddKey
    \/ \E u \in Nodes, v \in Nodes, weight \in Weights :
          NumEdges(graph) < MaxPathEdges /\ AddWeightedEdge(u, v, weight)
    \/ \E start_node \in Nodes : CallDijkstra(start_node)
    \/ \E start_node \in Nodes : CallBellmanFord(start_node)
    \/ \E start_node \in Nodes : CallSpfa(start_node)

SpecSingleSource == InitGraph /\ [][NextSingleSource]_vars

(* The graphs of few edges without a negative weight, and the calls of     *)
(* dijkstra_with_path.                                                     *)
NextPath ==
    \/ AddKey
    \/ \E u \in Nodes, v \in Nodes, weight \in {w \in Weights : w >= 0} :
          NumEdges(graph) < MaxPathEdges /\ AddWeightedEdge(u, v, weight)
    \/ \E start_node \in Nodes, end_node \in Nodes :
          CallDijkstraWithPath(start_node, end_node)

SpecPath == InitGraph /\ [][NextPath]_vars

(* graph[u].append(v) *)
AddEdge(u, v) ==
    /\ pc = "input"
    /\ u \in Keys(graph)
    /\ NumEdges(graph) < MaxEdges
    /\ graph' = [graph EXCEPT !.adj[u] = Append(@, v)]
    /\ UNCHANGED <<notGraph, pc, call, result>>

CallKosaraju ==
    /\ pc = "input"
    /\ pc' = "done"
    /\ call' = [op |-> "kosaraju_scc"]
    /\ result' = Returned(kosaraju_scc(graph))
    /\ UNCHANGED <<graph, notGraph>>

(* kosaraju_scc of 2SAT_proble.py, called on the graph itself. *)
CallTwoSatKosaraju ==
    /\ pc = "input"
    /\ pc' = "done"
    /\ call' = [op |-> "2SAT_proble.kosaraju_scc"]
    /\ result' = Returned(two_sat_kosaraju_scc(graph))
    /\ UNCHANGED <<graph, notGraph>>

CallTopologicalSortKahn ==
    /\ pc = "input"
    /\ pc' = "done"
    /\ call' = [op |-> "topological_sort_kahn"]
    /\ \E order \in IterationOrders(Vertices(graph)) :
          result' = topological_sort_kahn(graph, order)
    /\ UNCHANGED <<graph, notGraph>>

CallTopologicalSortDfs ==
    /\ pc = "input"
    /\ pc' = "done"
    /\ call' = [op |-> "topological_sort_dfs"]
    /\ \E order \in IterationOrders(Vertices(graph)) :
          result' = topological_sort_dfs(graph, order)
    /\ UNCHANGED <<graph, notGraph>>

CallHasCycle ==
    /\ pc = "input"
    /\ pc' = "done"
    /\ call' = [op |-> "has_cycle"]
    /\ \E order \in IterationOrders(Vertices(graph)) :
          result' = Returned(has_cycle(graph, order))
    /\ UNCHANGED <<graph, notGraph>>

CallBreadthFirstSearch(start_node) ==
    /\ pc = "input"
    /\ pc' = "done"
    /\ call' = [op |-> "breadth_first_search", start_node |-> start_node]
    /\ result' = Returned(breadth_first_search(graph, start_node))
    /\ UNCHANGED <<graph, notGraph>>

(* The result carries the nodes expanded besides the set returned. *)
CallDepthFirstSearch(start_node) ==
    /\ pc = "input"
    /\ pc' = "done"
    /\ call' = [op |-> "depth_first_search", start_node |-> start_node]
    /\ result' = [status |-> "ok",
                  value |-> depth_first_search(graph, start_node, DfsVisitedNone).visited,
                  expanded |-> depth_first_search(graph, start_node, DfsVisitedNone).expanded]
    /\ UNCHANGED <<graph, notGraph>>

(* The directed graphs without weights, and the calls on them. *)
NextDirected ==
    \/ AddKey
    \/ \E u \in Nodes, v \in Nodes : AddEdge(u, v)
    \/ CallKosaraju
    \/ CallTwoSatKosaraju
    \/ CallTopologicalSortKahn
    \/ CallTopologicalSortDfs
    \/ CallHasCycle
    \/ \E start_node \in Nodes : CallBreadthFirstSearch(start_node)
    \/ \E start_node \in Nodes : CallDepthFirstSearch(start_node)

SpecDirected == InitGraph /\ [][NextDirected]_vars

CallAllTopologicalSorts ==
    /\ pc = "input"
    /\ pc' = "done"
    /\ call' = [op |-> "all_topological_sorts"]
    /\ \E order \in IterationOrders(Vertices(graph)) :
          result' = Returned(all_topological_sorts(graph, order))
    /\ UNCHANGED <<graph, notGraph>>

(* The directed graphs, and the calls of all_topological_sorts. *)
NextOrderings ==
    \/ AddKey
    \/ \E u \in Nodes, v \in Nodes : AddEdge(u, v)
    \/ CallAllTopologicalSorts

SpecOrderings == InitGraph /\ [][NextOrderings]_vars

(* -------------- breadth_first_search, one iteration at a time ----------- *)

(* visited, order and queue set up, before the first test of "while queue". *)
BfsStart(start_node) ==
    /\ pc = "input"
    /\ pc' = "while"
    /\ call' = [op |-> "breadth_first_search", start_node |-> start_node]
    /\ locals' = [st |-> BfsInit(start_node), current_node |-> start_node, i |-> 1]
    /\ UNCHANGED <<graph, clauses, num_vars, num_nodes, edges, root, self, result>>

(* current_node = queue.popleft(); order.append(current_node) *)
BfsDequeue ==
    /\ pc = "while"
    /\ locals.st.queue # <<>>
    /\ pc' = "for"
    /\ locals' = [st |-> [locals.st EXCEPT !.queue = Tail(@),
                                           !.order = Append(@, Head(locals.st.queue))],
                  current_node |-> Head(locals.st.queue),
                  i |-> 1]
    /\ UNCHANGED <<graph, clauses, num_vars, num_nodes, edges, root, self, call, result>>

(* One iteration of "for neighbor in graph.get(current_node, [])". *)
BfsNeighbor ==
    /\ pc = "for"
    /\ locals.i <= Len(Get(graph, locals.current_node))
    /\ locals' = [locals EXCEPT
                     !.st = BfsVisit(@, Get(graph, locals.current_node)[locals.i]),
                     !.i = @ + 1]
    /\ UNCHANGED <<graph, clauses, num_vars, num_nodes, edges, root, self, pc, call, result>>

(* The neighbours are exhausted: back to "while queue". *)
BfsEndFor ==
    /\ pc = "for"
    /\ locals.i > Len(Get(graph, locals.current_node))
    /\ pc' = "while"
    /\ UNCHANGED <<graph, notGraph, call, result>>

(* return order *)
BfsReturn ==
    /\ pc = "while"
    /\ locals.st.queue = <<>>
    /\ pc' = "done"
    /\ result' = Returned(locals.st.order)
    /\ UNCHANGED <<graph, notGraph, call>>

NextBfsSteps ==
    \/ AddKey
    \/ \E u \in Nodes, v \in Nodes : AddEdge(u, v)
    \/ \E start_node \in Nodes : BfsStart(start_node)
    \/ BfsDequeue
    \/ BfsNeighbor
    \/ BfsEndFor
    \/ BfsReturn

SpecBfsSteps == InitGraph /\ [][NextBfsSteps]_vars

(* ------------------------ spfa, one iteration at a time ----------------- *)

(* The nodes collected and the start node tested; distances, queue,        *)
(* in_queue and relax_count set up, before the first test of "while queue". *)
SpfaStart(start_node) ==
    /\ pc = "input"
    /\ call' = [op |-> "spfa", start_node |-> start_node]
    /\ IF start_node \notin WeightedVertices(graph)
       THEN /\ pc' = "done"
            /\ result' = Raised("ValueError")
            /\ UNCHANGED locals
       ELSE /\ pc' = "while"
            /\ locals' = [st |-> SpfaInit(graph, start_node), u |-> start_node, i |-> 1]
            /\ UNCHANGED result
    /\ UNCHANGED <<graph, clauses, num_vars, num_nodes, edges, root, self>>

(* u = queue.popleft(); in_queue[u] = False *)
SpfaDequeue ==
    /\ pc = "while"
    /\ locals.st.queue # <<>>
    /\ pc' = "for"
    /\ locals' = [st |-> [locals.st EXCEPT !.queue = Tail(@),
                                           !.in_queue[Head(locals.st.queue)] = FALSE],
                  u |-> Head(locals.st.queue),
                  i |-> 1]
    /\ UNCHANGED <<graph, clauses, num_vars, num_nodes, edges, root, self, call, result>>

(* One iteration of "for v, weight in graph.get(u, [])": it may raise. *)
SpfaEdge ==
    /\ pc = "for"
    /\ locals.i <= Len(Get(graph, locals.u))
    /\ locals' = [locals EXCEPT
                     !.st = SpfaRelax(@, locals.u, Get(graph, locals.u)[locals.i][1],
                                      Get(graph, locals.u)[locals.i][2]),
                     !.i = @ + 1]
    /\ IF locals'.st.status = "running"
       THEN UNCHANGED <<pc, result>>
       ELSE pc' = "done" /\ result' = Raised(locals'.st.status)
    /\ UNCHANGED <<graph, clauses, num_vars, num_nodes, edges, root, self, call>>

(* The edges of u are exhausted: back to "while queue". *)
SpfaEndFor ==
    /\ pc = "for"
    /\ locals.i > Len(Get(graph, locals.u))
    /\ pc' = "while"
    /\ UNCHANGED <<graph, notGraph, call, result>>

(* return distances *)
SpfaReturn ==
    /\ pc = "while"
    /\ locals.st.queue = <<>>
    /\ pc' = "done"
    /\ result' = Returned(locals.st.distances)
    /\ UNCHANGED <<graph, notGraph, call>>

SpfaStep == SpfaDequeue \/ SpfaEdge \/ SpfaEndFor \/ SpfaReturn

NextSpfaSteps ==
    \/ AddKey
    \/ \E u \in Nodes, v \in Nodes, weight \in StepWeights :
          NumEdges(graph) < MaxPathEdges /\ AddWeightedEdge(u, v, weight)
    \/ \E start_node \in Nodes : SpfaStart(start_node)
    \/ SpfaDequeue
    \/ SpfaEdge
    \/ SpfaEndFor
    \/ SpfaReturn

SpecSpfaSteps == InitGraph /\ [][NextSpfaSteps]_vars

(* A call that has begun goes on: the interpreter runs it to its end. *)
SpecSpfaRuns == SpecSpfaSteps /\ WF_vars(SpfaStep)

(* ----------------------- the clauses and the solver -------------------- *)

InitTwoSat ==
    /\ graph = EmptyGraph
    /\ clauses = <<>>
    /\ num_vars \in 0 .. MaxVars
    /\ num_nodes = 0
    /\ edges = <<>>
    /\ root = NoTree
    /\ self = NoObject
    /\ locals = NoLocals
    /\ pc = "input"
    /\ call = NoCall
    /\ result = NoResult

(* clauses.append((a, b)), of literals of the variables 1 .. num_vars *)
AddClause(a, b) ==
    /\ pc = "input"
    /\ Len(clauses) < MaxClauses
    /\ a \in Literals /\ a <= num_vars /\ 0 - a <= num_vars
    /\ b \in Literals /\ b <= num_vars /\ 0 - b <= num_vars
    /\ clauses' = Append(clauses, <<a, b>>)
    /\ UNCHANGED <<graph, root, self, locals, num_vars, num_nodes, edges, pc, call, result>>

CallTwoSatSolver ==
    /\ pc = "input"
    /\ pc' = "done"
    /\ call' = [op |-> "two_sat_solver"]
    /\ result' = Returned(two_sat_solver(clauses, num_vars))
    /\ UNCHANGED <<graph, root, self, locals, clauses, num_vars, num_nodes, edges>>

NextTwoSat ==
    \/ \E a \in Literals, b \in Literals : AddClause(a, b)
    \/ CallTwoSatSolver

SpecTwoSat == InitTwoSat /\ [][NextTwoSat]_vars

(* -------------------- the edge lists and spanning trees ---------------- *)

InitSpanning ==
    /\ graph = EmptyGraph
    /\ clauses = <<>>
    /\ num_vars = 0
    /\ num_nodes \in 0 .. NumNodes
    /\ edges = <<>>
    /\ root = NoTree
    /\ self = NoObject
    /\ locals = NoLocals
    /\ pc = "input"
    /\ call = NoCall
    /\ result = NoResult

(* edges.append((u, v, weight)), between two of the nodes 0 .. num_nodes-1 *)
AddTreeEdge(u, v, weight) ==
    /\ pc = "input"
    /\ Len(edges) < MaxTreeEdges
    /\ u < num_nodes
    /\ v < num_nodes
    /\ edges' = Append(edges, <<u, v, weight>>)
    /\ UNCHANGED <<graph, root, self, locals, clauses, num_vars, num_nodes, pc, call, result>>

(* The call sorts the caller's list. *)
CallKruskalsAlgorithm ==
    /\ pc = "input"
    /\ pc' = "done"
    /\ call' = [op |-> "kruskals_algorithm", num_nodes |-> num_nodes, edges |-> edges]
    /\ edges' = kruskals_algorithm(num_nodes, edges).edges
    /\ result' = Returned(kruskals_algorithm(num_nodes, edges).mst_edges)
    /\ UNCHANGED <<graph, root, self, locals, clauses, num_vars, num_nodes>>

CallPrimesAlgorithm ==
    /\ pc = "input"
    /\ pc' = "done"
    /\ call' = [op |-> "primes_algorithm", num_nodes |-> num_nodes, edges |-> edges]
    /\ result' = primes_algorithm(num_nodes, edges)
    /\ UNCHANGED <<graph, root, self, locals, clauses, num_vars, num_nodes, edges>>

NextSpanning ==
    \/ \E u \in Nodes, v \in Nodes, weight \in TreeWeights : AddTreeEdge(u, v, weight)
    \/ CallKruskalsAlgorithm
    \/ CallPrimesAlgorithm

SpecSpanning == InitSpanning /\ [][NextSpanning]_vars

(* ------------------- the edge lists and the path searches --------------- *)

InitUndirected ==
    /\ graph = EmptyGraph
    /\ clauses = <<>>
    /\ num_vars = 0
    /\ num_nodes \in 0 .. MaxPathNodes
    /\ edges = <<>>
    /\ root = NoTree
    /\ self = NoObject
    /\ locals = NoLocals
    /\ pc = "input"
    /\ call = NoCall
    /\ result = NoResult

(* edges.append((u, v)), between two of the nodes 0 .. num_nodes-1 *)
AddPairEdge(u, v) ==
    /\ pc = "input"
    /\ Len(edges) < MaxPairEdges
    /\ u < num_nodes
    /\ v < num_nodes
    /\ edges' = Append(edges, <<u, v>>)
    /\ UNCHANGED <<graph, root, self, locals, clauses, num_vars, num_nodes, pc, call, result>>

CallHasEularianPath ==
    /\ pc = "input"
    /\ pc' = "done"
    /\ call' = [op |-> "has_eularian_path", num_nodes |-> num_nodes, edges |-> edges]
    /\ result' = Returned(has_eularian_path(num_nodes, edges))
    /\ UNCHANGED <<graph, root, self, locals, clauses, num_vars, num_nodes, edges>>

CallFindEularianPath ==
    /\ pc = "input"
    /\ pc' = "done"
    /\ call' = [op |-> "find_eularian_path", num_nodes |-> num_nodes, edges |-> edges]
    /\ result' = Returned(find_eularian_path(num_nodes, edges))
    /\ UNCHANGED <<graph, root, self, locals, clauses, num_vars, num_nodes, edges>>

CallHasHamiltonianPath ==
    /\ pc = "input"
    /\ pc' = "done"
    /\ call' = [op |-> "has_hamiltonian_path", num_nodes |-> num_nodes, edges |-> edges]
    /\ result' = Returned(has_hamiltonian_path(num_nodes, edges))
    /\ UNCHANGED <<graph, root, self, locals, clauses, num_vars, num_nodes, edges>>

CallFindHamiltonianPath ==
    /\ pc = "input"
    /\ pc' = "done"
    /\ call' = [op |-> "find_hamiltonian_path", num_nodes |-> num_nodes, edges |-> edges]
    /\ result' = Returned(find_hamiltonian_path(num_nodes, edges))
    /\ UNCHANGED <<graph, root, self, locals, clauses, num_vars, num_nodes, edges>>

NextUndirected ==
    \/ \E u \in PathNodes, v \in PathNodes : AddPairEdge(u, v)
    \/ CallHasEularianPath
    \/ CallFindEularianPath
    \/ CallHasHamiltonianPath
    \/ CallFindHamiltonianPath

SpecUndirected == InitUndirected /\ [][NextUndirected]_vars

(* -------------------- the trees and the tree algorithms ----------------- *)

(* root = TreeNode(1) *)
InitTree ==
    /\ graph = EmptyGraph
    /\ clauses = <<>>
    /\ num_vars = 0
    /\ num_nodes = 0
    /\ edges = <<>>
    /\ root = [children |-> << <<>> >>]
    /\ self = NoObject
    /\ locals = NoLocals
    /\ pc = "input"
    /\ call = NoCall
    /\ result = NoResult

(* parent.children.append(TreeNode(n + 1)), with at most max nodes *)
AddChild(parent, max) ==
    /\ pc = "input"
    /\ Len(root.children) < max
    /\ parent \in TreeNodes(root)
    /\ root' = [children |->
                   Append([root.children EXCEPT ![parent] =
                               Append(@, Len(root.children) + 1)],
                          <<>>)]
    /\ UNCHANGED <<graph, self, locals, clauses, num_vars, num_nodes, edges, pc, call, result>>

CallTreeDiameter ==
    /\ pc = "input"
    /\ pc' = "done"
    /\ call' = [op |-> "tree_diameter"]
    /\ result' = Returned(tree_diameter(root))
    /\ UNCHANGED <<graph, notGraph>>

CallCalculateLongestPaths ==
    /\ pc = "input"
    /\ pc' = "done"
    /\ call' = [op |-> "calculate_longest_paths"]
    /\ result' = Returned(calculate_longest_paths(root))
    /\ UNCHANGED <<graph, notGraph>>

NextTree ==
    \/ \E parent \in 1 .. MaxTreeNodes : AddChild(parent, MaxTreeNodes)
    \/ CallTreeDiameter
    \/ CallCalculateLongestPaths

SpecTree == InitTree /\ [][NextTree]_vars

(* node1 and node2 are None, nodes of the tree, or a TreeNode outside it. *)
CallLowestCommonAncestor(node1, node2) ==
    /\ pc = "input"
    /\ node1 \in 0 .. Len(root.children) + 1
    /\ node2 \in 0 .. Len(root.children) + 1
    /\ pc' = "done"
    /\ call' = [op |-> "lowest_common_ancestor", node1 |-> node1, node2 |-> node2]
    /\ result' = lowest_common_ancestor(root, 1, node1, node2)
    /\ UNCHANGED <<graph, notGraph>>

NextAncestor ==
    \/ \E parent \in 1 .. MaxAncestorNodes : AddChild(parent, MaxAncestorNodes)
    \/ \E node1 \in 0 .. MaxAncestorNodes + 1, node2 \in 0 .. MaxAncestorNodes + 1 :
          CallLowestCommonAncestor(node1, node2)

SpecAncestor == InitTree /\ [][NextAncestor]_vars

(* --------------------------- the DisjointSet ---------------------------- *)

(* self = DisjointSet(num_nodes); edges holds the sets into which the      *)
(* union calls made so far have joined the elements.                       *)
InitDisjointSet ==
    /\ graph = EmptyGraph
    /\ clauses = <<>>
    /\ num_vars = 0
    /\ num_nodes \in 1 .. MaxSetSize
    /\ edges = {{u} : u \in 0 .. num_nodes - 1}
    /\ root = NoTree
    /\ self = DisjointSetInit(num_nodes)
    /\ locals = NoLocals
    /\ pc = "input"
    /\ call = NoCall
    /\ result = NoResult

(* The sets with the set of u and the set of v made one. *)
SetsJoined(sets, u, v) ==
    {S \in sets : u \notin S /\ v \notin S} \cup {UNION {S \in sets : u \in S \/ v \in S}}

(* self.find(u) *)
CallFind(u) ==
    /\ u \in DOMAIN self.parent
    /\ call' = [op |-> "find", u |-> u]
    /\ self' = DisjointSetFind(self, u).ds
    /\ result' = Returned(DisjointSetFind(self, u).root)
    /\ UNCHANGED <<graph, clauses, num_vars, num_nodes, edges, root, locals, pc>>

(* self.union(u, v), with the two roots it found *)
CallUnion(u, v) ==
    /\ u \in DOMAIN self.parent
    /\ v \in DOMAIN self.parent
    /\ call' = [op |-> "union", u |-> u, v |-> v,
                root_u |-> DisjointSetFind(self, u).root,
                root_v |-> DisjointSetFind(DisjointSetFind(self, u).ds, v).root]
    /\ self' = DisjointSetUnion(self, u, v)
    /\ edges' = SetsJoined(edges, u, v)
    /\ result' = ReturnedNone
    /\ UNCHANGED <<graph, clauses, num_vars, num_nodes, root, locals, pc>>

NextDisjointSet ==
    \/ \E u \in 0 .. MaxSetSize - 1 : CallFind(u)
    \/ \E u \in 0 .. MaxSetSize - 1, v \in 0 .. MaxSetSize - 1 : CallUnion(u, v)

SpecDisjointSet == InitDisjointSet /\ [][NextDisjointSet]_vars

(* --------------------------- representing_graphs ----------------------- *)

(* The indexes tried on a GraphMatrix: negative ones count from the end,   *)
(* and those past either end are out of range.                             *)
Indexes == (0 - (MaxSize + 1)) .. MaxSize

(* Graph(num_nodes) *)
GraphInit(n) ==
    [class |-> "Graph", adjacency_list |-> EmptyGraph, num_edges |-> 0, num_nodes |-> n]

(* if u not in self.adjacency_list: a new empty list, and one node more *)
GraphWithNode(g, u) ==
    IF u \in Keys(g.adjacency_list) THEN g
    ELSE [g EXCEPT !.adjacency_list.keys = Append(@, u),
                   !.adjacency_list.adj[u] = <<>>,
                   !.num_nodes = @ + 1]

(* add_edge without the append to the list of v *)
GraphAddEdgeOneWay(g, u, v) ==
    LET h == GraphWithNode(GraphWithNode(g, u), v)
    IN  [h EXCEPT !.adjacency_list.adj[u] = Append(@, v),
                  !.num_edges = @ + 1]

(* Graph.add_edge(u, v): the two appends are made one after the other, so  *)
(* that a self-loop puts u twice in its own list.                          *)
GraphAddEdge(g, u, v) ==
    LET h == GraphWithNode(GraphWithNode(g, u), v)
        first == [h EXCEPT !.adjacency_list.adj[u] = Append(@, v)]
    IN  [first EXCEPT !.adjacency_list.adj[v] = Append(@, u),
                      !.num_edges = @ + 1]

(* GraphMatrix(size) *)
GraphMatrixInit(size) ==
    [class |-> "GraphMatrix", size |-> size,
     adjacency_matrix |-> [i \in 0 .. size - 1 |-> [j \in 0 .. size - 1 |-> 0]],
     num_edges |-> 0]

(* The position a list of length size gives the index i. *)
InRange(i, size) == (0 - size) <= i /\ i < size
Position(i, size) == IF i < 0 THEN i + size ELSE i

(* matrix[u][v] = 1, or the IndexError of an index out of range *)
MatrixStore(matrix, size, u, v) ==
    IF InRange(u, size) /\ InRange(v, size)
    THEN Returned([matrix EXCEPT ![Position(u, size)][Position(v, size)] = 1])
    ELSE Raised("IndexError")

(* GraphMatrix.add_edge(u, v): the object after the call, and what the     *)
(* call returned or raised.                                                *)
GraphMatrixAddEdge(gm, u, v) ==
    IF u >= gm.size \/ v >= gm.size
    THEN [self |-> gm, result |-> Raised("ValueError")]
    ELSE LET first == MatrixStore(gm.adjacency_matrix, gm.size, u, v)
         IN  IF first.status # "ok"
             THEN [self |-> gm, result |-> Raised("IndexError")]
             ELSE LET second == MatrixStore(first.value, gm.size, v, u)
                  IN  IF second.status # "ok"
                      THEN [self |-> [gm EXCEPT !.adjacency_matrix = first.value],
                            result |-> Raised("IndexError")]
                      ELSE [self |-> [gm EXCEPT !.adjacency_matrix = second.value,
                                                !.num_edges = @ + 1],
                            result |-> ReturnedNone]

(* A Graph or a GraphMatrix as its constructor leaves it: num_nodes is the *)
(* argument of the constructor, 0 being the default of Graph, and edges    *)
(* the add_edge calls made on the Graph so far.                            *)
InitRepresentation ==
    /\ graph = EmptyGraph
    /\ clauses = <<>>
    /\ num_vars = 0
    /\ num_nodes \in 0 .. MaxSize
    /\ edges = <<>>
    /\ root = NoTree
    /\ self \in {GraphInit(num_nodes), GraphMatrixInit(num_nodes)}
    /\ locals = NoLocals
    /\ pc = "input"
    /\ call = NoCall
    /\ result = NoResult

(* self.add_edge(u, v) on a Graph *)
CallGraphAddEdge(u, v) ==
    /\ self.class = "Graph"
    /\ Len(edges) < MaxCalls
    /\ call' = [op |-> "Graph.add_edge", u |-> u, v |-> v]
    /\ self' = GraphAddEdge(self, u, v)
    /\ edges' = Append(edges, <<u, v>>)
    /\ result' = ReturnedNone
    /\ UNCHANGED <<graph, clauses, num_vars, num_nodes, root, locals, pc>>

(* self.add_edge(u, v) on a GraphMatrix *)
CallGraphMatrixAddEdge(u, v) ==
    /\ self.class = "GraphMatrix"
    /\ self.num_edges < MaxCalls
    /\ call' = [op |-> "GraphMatrix.add_edge", u |-> u, v |-> v]
    /\ self' = GraphMatrixAddEdge(self, u, v).self
    /\ result' = GraphMatrixAddEdge(self, u, v).result
    /\ UNCHANGED <<graph, clauses, num_vars, num_nodes, edges, root, locals, pc>>

NextRepresentation ==
    \/ \E u \in Nodes, v \in Nodes : CallGraphAddEdge(u, v)
    \/ \E u \in Indexes, v \in Indexes : CallGraphMatrixAddEdge(u, v)

SpecRepresentation == InitRepresentation /\ [][NextRepresentation]_vars

(* --------------------- shortest paths, by definition -------------------- *)

MinOf(S) == CHOOSE x \in S : \A y \in S : x <= y

(* The weights of the edges from u to v, and the least of them. *)
EdgeWeights(g, u, v) ==
    {Get(g, u)[i][2] : i \in {j \in 1 .. Len(Get(g, u)) : Get(g, u)[j][1] = v}}

MinEdge(g, u, v) ==
    IF EdgeWeights(g, u, v) = {} THEN Inf ELSE MinOf(EdgeWeights(g, u, v))

(* The sequences of pairwise distinct nodes. *)
SimplePaths ==
    {p \in UNION {[1 .. n -> Nodes] : n \in 1 .. NumNodes} :
        \A a, b \in DOMAIN p : a # b => p[a] # p[b]}

RECURSIVE PathWeight(_, _, _)
PathWeight(g, p, i) ==
    IF i >= Len(p) THEN 0
    ELSE Plus(MinEdge(g, p[i], p[i + 1]), PathWeight(g, p, i + 1))

(* The least weight of a simple path from s to t: the distance, in a graph *)
(* without a negative cycle.                                               *)
Distance(g, s, t) ==
    MinOf({Inf} \cup {PathWeight(g, p, 1) :
                        p \in {q \in SimplePaths : q[1] = s /\ q[Len(q)] = t}})

(* A cycle of negative weight through a node that s reaches. *)
NegativeCycleFrom(g, s) ==
    \E p \in SimplePaths :
        /\ Distance(g, s, p[1]) # Inf
        /\ Plus(PathWeight(g, p, 1), MinEdge(g, p[Len(p)], p[1])) < 0

Done(op) == pc = "done" /\ call.op = op

(* C1: spfa and bellman_ford have the same outcome from a start node that  *)
(* is a key: both raise the negative-cycle error, which they do exactly    *)
(* when a negative cycle is reachable, or both return the same distances.  *)
C1_SpfaSameAsBellmanFord ==
    (Done("spfa") /\ call.start_node \in Keys(graph)) =>
        /\ result = bellman_ford(graph, call.start_node)
        /\ result.status = "ValueError" <=> NegativeCycleFrom(graph, call.start_node)

(* C2: on a graph without negative weights, from a start node that is a    *)
(* key, dijkstra returns the map bellman_ford returns: the same keys and   *)
(* the same distance for each (the two results are equal as maps).         *)
C2_DijkstraSameAsBellmanFord ==
    (Done("dijkstra") /\ call.start_node \in Keys(graph) /\ ~HasNegativeWeight(graph)) =>
        /\ result.status = "ok"
        /\ result = bellman_ford(graph, call.start_node)

(* dijkstra returned a distance that is shorter than the direct edge. *)
C2_Witness ==
    /\ Done("dijkstra")
    /\ result.status = "ok"
    /\ \E v \in DOMAIN result.value :
          /\ MinEdge(graph, call.start_node, v) # Inf
          /\ result.value[v] < MinEdge(graph, call.start_node, v)

(* C3: with a negative cycle reachable from the start node, bellman_ford   *)
(* and spfa raise the negative-cycle error, and so does floyd_warshall     *)
(* (for which every key is a start node).                                  *)
C3_NegativeCycleRaises ==
    /\ (/\ pc = "done"
        /\ call.op \in {"bellman_ford", "spfa"}
        /\ call.start_node \in Keys(graph)
        /\ NegativeCycleFrom(graph, call.start_node)) => result.status = "ValueError"
    /\ (/\ Done("floyd_warshall")
        /\ \E s \in Keys(graph) : NegativeCycleFrom(graph, s)) => result.status = "ValueError"

(* C4: on a graph without a negative cycle floyd_warshall returns, for     *)
(* every key i and node j, the distance bellman_ford finds from i to j,    *)
(* which is the shortest distance: 0 from a node to itself and infinity    *)
(* to a node it does not reach.                                            *)
C4_FloydWarshallDistances ==
    (Done("floyd_warshall") /\ \A s \in Keys(graph) : ~NegativeCycleFrom(graph, s)) =>
        /\ result.status = "ok"
        /\ \A i \in Keys(graph) :
              /\ result.value[<<i, i>>] = 0
              /\ \A j \in WeightedVertices(graph) :
                    /\ <<i, j>> \in DOMAIN result.value
                    /\ result.value[<<i, j>>] = bellman_ford(graph, i).value[j]
                    /\ result.value[<<i, j>>] = Distance(graph, i, j)

(* ----------------------- reachability, by definition ------------------- *)

(* The targets of the edges that leave a node of S. *)
Successors(g, S) == UNION {Range(Get(g, n)) : n \in S}

(* The nodes a directed path (of any length, none included) leads to from  *)
(* a node of S.                                                            *)
RECURSIVE ReachableFrom(_, _)
ReachableFrom(g, S) ==
    LET T == S \cup Successors(g, S)
    IN IF T = S THEN S ELSE ReachableFrom(g, T)

Reaches(g, u, v) == v \in ReachableFrom(g, {u})

(* No node is on a directed cycle. *)
Acyclic(g) == \A n \in Vertices(g) : n \notin ReachableFrom(g, Successors(g, {n}))

(* The positions <<i, j>> at which v is in a list of lists. *)
PositionsIn(sccs, v) ==
    {p \in UNION {{i} \X (DOMAIN sccs[i]) : i \in DOMAIN sccs} : sccs[p[1]][p[2]] = v}

(* The positions at which v is in a list. *)
Occurrences(s, v) == {i \in DOMAIN s : s[i] = v}

(* The graph has an edge from a node of list A to a node of list B. *)
EdgeBetween(g, A, B) == Successors(g, Range(A)) \cap Range(B) # {}

(* C5: both kosaraju_scc (of Kosarajus_algorithm.py and of 2SAT_proble.py) *)
(* return non-empty lists of nodes in which every node of the graph (key   *)
(* or edge target) occurs exactly once and nothing else occurs, and two    *)
(* nodes are in the same list exactly when each reaches the other.         *)
C5_KosarajuComponents ==
    (pc = "done" /\ call.op \in {"kosaraju_scc", "2SAT_proble.kosaraju_scc"}) =>
        LET sccs == result.value
        IN /\ \A i \in DOMAIN sccs : sccs[i] # <<>> /\ Range(sccs[i]) \subseteq Vertices(graph)
           /\ \A v \in Vertices(graph) : Cardinality(PositionsIn(sccs, v)) = 1
           /\ \A u, v \in Vertices(graph) :
                 (\E p \in PositionsIn(sccs, u), q \in PositionsIn(sccs, v) : p[1] = q[1])
                     <=> (Reaches(graph, u, v) /\ Reaches(graph, v, u))

(* kosaraju_scc returned several components and one of several nodes. *)
C5_Witness ==
    /\ Done("kosaraju_scc")
    /\ Len(result.value) >= 2
    /\ \E i \in DOMAIN result.value : Len(result.value[i]) >= 2

(* C6, as claimed: when the graph has an edge from a node of component A   *)
(* to a node of another component B, kosaraju_scc returns B earlier in the *)
(* list than A (reverse topological order of the condensation).            *)
C6_ReverseTopologicalOrder ==
    Done("kosaraju_scc") =>
        \A a, b \in DOMAIN result.value :
            (a # b /\ EdgeBetween(graph, result.value[a], result.value[b])) => b < a

(* C6, as the code has it: when the graph has an edge from a node of       *)
(* component A to a node of another component B, kosaraju_scc returns A    *)
(* earlier in the list than B (topological order of the condensation).     *)
C6_TopologicalOrder ==
    Done("kosaraju_scc") =>
        \A a, b \in DOMAIN result.value :
            (a # b /\ EdgeBetween(graph, result.value[a], result.value[b])) => a < b

(* kosaraju_scc returned three components with edges between two pairs. *)
C6_Witness ==
    /\ Done("kosaraju_scc")
    /\ Len(result.value) = 3
    /\ Cardinality({p \in (DOMAIN result.value) \X (DOMAIN result.value) :
                      /\ p[1] # p[2]
                      /\ EdgeBetween(graph, result.value[p[1]], result.value[p[2]])}) >= 2

(* Every vertex once, and every edge from an earlier to a later place. *)
IsTopologicalOrder(g, s) ==
    /\ \A v \in Vertices(g) : Cardinality(Occurrences(s, v)) = 1
    /\ Range(s) \subseteq Vertices(g)
    /\ \A i, j \in DOMAIN s : s[j] \in Successors(g, {s[i]}) => i < j

(* C8: on an acyclic graph topological_sort_kahn and topological_sort_dfs  *)
(* return a list with every vertex once and every edge's source before its *)
(* target, and has_cycle returns False; on a graph with a directed cycle   *)
(* (a self-loop is one) both sorts return None and has_cycle returns True. *)
C8_TopologicalSorts ==
    /\ (pc = "done" /\ call.op \in {"topological_sort_kahn", "topological_sort_dfs"}) =>
          IF Acyclic(graph)
          THEN result.status = "ok" /\ IsTopologicalOrder(graph, result.value)
          ELSE result = ReturnedNone
    /\ Done("has_cycle") => result = Returned(~Acyclic(graph))

(* topological_sort_dfs ordered three vertices joined by three edges. *)
C8_Witness ==
    /\ Done("topological_sort_dfs")
    /\ result.status = "ok"
    /\ Len(result.value) >= 3
    /\ NumEdges(graph) >= 3

(* C10: breadth_first_search returns a list in which every node reachable  *)
(* from the start node (itself included) occurs exactly once and no other  *)
(* node occurs; the list is [start] when the start node is not a key.      *)
C10_BfsReachable ==
    Done("breadth_first_search") =>
        LET order == result.value
            reachable == ReachableFrom(graph, {call.start_node})
        IN /\ \A v \in reachable : Cardinality(Occurrences(order, v)) = 1
           /\ Range(order) \subseteq reachable
           /\ call.start_node \notin Keys(graph) => order = <<call.start_node>>

(* breadth_first_search visited three nodes joined by three edges, one of  *)
(* which leads to a node already visited.                                  *)
C10_Witness ==
    /\ Done("breadth_first_search")
    /\ Len(result.value) >= 3
    /\ NumEdges(graph) >= 3

(* -------------------- satisfiability, by definition -------------------- *)

(* The literal under an assignment of truth values to the variables. *)
LiteralTrue(assignment, l) == IF l > 0 THEN assignment[l] ELSE ~assignment[0 - l]

(* Some assignment satisfies every clause: the enumeration of all of them. *)
Satisfiable(cs, nv) ==
    \E assignment \in [1 .. nv -> BOOLEAN] :
        \A i \in DOMAIN cs :
            LiteralTrue(assignment, cs[i][1]) \/ LiteralTrue(assignment, cs[i][2])

RECURSIVE JoinedTo(_, _)
JoinedTo(es, S) ==
    LET T == S \cup {e[2] : e \in {d \in Range(es) : d[1] \in S}}
               \cup {e[1] : e \in {d \in Range(es) : d[2] \in S}}
    IN IF T = S THEN S ELSE JoinedTo(es, T)

(* The edges join all of the nodes 0 .. n-1. *)
Connected(n, es) == JoinedTo(es, {0}) = 0 .. (n - 1)

(* n - 1 edges that join the n nodes. *)
IsSpanningTree(n, tree) == Len(tree) = n - 1 /\ Connected(n, tree)

RECURSIVE TotalWeight(_)
TotalWeight(es) == IF es = <<>> THEN 0 ELSE es[1][3] + TotalWeight(Tail(es))

(* The edges of the list at the places I, in the order of the list. *)
RECURSIVE Pick(_, _, _)
Pick(es, I, i) ==
    IF i > Len(es) THEN <<>>
    ELSE (IF i \in I THEN <<es[i]>> ELSE <<>>) \o Pick(es, I, i + 1)

(* The weights of the spanning trees made of edges of the list. *)
SpanningTreeWeights(n, es) ==
    {TotalWeight(Pick(es, I, 1)) :
        I \in {J \in SUBSET DOMAIN es : IsSpanningTree(n, Pick(es, J, 1))}}

(* Every edge of the tree is an edge of the list, in either direction. *)
EdgesOf(tree, es) ==
    \A i \in DOMAIN tree :
        \E j \in DOMAIN es :
            /\ tree[i][3] = es[j][3]
            /\ {tree[i][1], tree[i][2]} = {es[j][1], es[j][2]}

(* C9: on a connected graph of num_nodes >= 1 nodes kruskals_algorithm     *)
(* returns num_nodes - 1 edges of the graph that form a spanning tree, of  *)
(* the total weight of the edges primes_algorithm returns on the same      *)
(* input, and that weight (of the tree of either) is the least total       *)
(* weight of a spanning tree of the graph.                                 *)
C9_SpanningTrees ==
    /\ (/\ Done("kruskals_algorithm")
        /\ call.num_nodes >= 1
        /\ Connected(call.num_nodes, call.edges)) =>
           /\ IsSpanningTree(call.num_nodes, result.value)
           /\ EdgesOf(result.value, call.edges)
           /\ primes_algorithm(call.num_nodes, call.edges).status = "ok"
           /\ TotalWeight(result.value) =
                  TotalWeight(primes_algorithm(call.num_nodes, call.edges).value)
           /\ TotalWeight(result.value) = MinOf(SpanningTreeWeights(call.num_nodes, call.edges))
    /\ (/\ Done("primes_algorithm")
        /\ call.num_nodes >= 1
        /\ Connected(call.num_nodes, call.edges)) =>
           /\ result.status = "ok"
           /\ IsSpanningTree(call.num_nodes, result.value)
           /\ EdgesOf(result.value, call.edges)
           /\ TotalWeight(result.value) = MinOf(SpanningTreeWeights(call.num_nodes, call.edges))

(* kruskals_algorithm sorted the edges of a connected graph, which were    *)
(* not given in the order of their weights, and left the first one out of  *)
(* the tree it returned.                                                   *)
C9_Witness ==
    /\ Done("kruskals_algorithm")
    /\ call.num_nodes >= 2
    /\ Connected(call.num_nodes, call.edges)
    /\ edges # call.edges
    /\ Len(result.value) = call.num_nodes - 1
    /\ call.edges[1] \notin Range(result.value)

(* C11: depth_first_search returns exactly the set of the nodes reachable  *)
(* from the start node, and no node has its neighbour list iterated more   *)
(* than once, whatever cycles or joining paths the graph has.              *)
C11_DfsReachable ==
    Done("depth_first_search") =>
        /\ result.value = ReachableFrom(graph, {call.start_node})
        /\ \A v \in Nodes : Cardinality(Occurrences(result.expanded, v)) <= 1

(* depth_first_search returned three nodes of a graph in which the start   *)
(* node is on a cycle.                                                     *)
C11_Witness ==
    /\ Done("depth_first_search")
    /\ Cardinality(result.value) >= 3
    /\ call.start_node \in ReachableFrom(graph, Successors(graph, {call.start_node}))

(* Some edge of the graph has a negative weight. *)
NegativeEdge(g) == \E k \in Keys(g) : \E e \in Range(g.adj[k]) : e[2] < 0

(* The errors the specification names InvalidInput: of a start node that   *)
(* is missing (KeyError) and of a negative weight (ValueError).            *)
InvalidInput == {"KeyError", "ValueError"}

(* The run of the call of dijkstra or dijkstra_with_path that was made. *)
RunOfCall ==
    IF call.op = "dijkstra" THEN DijkstraRun(graph, call.start_node)
    ELSE PathRun(graph, call.start_node, call.end_node)

(* C12: on a graph with a negative edge, reachable from the start node or  *)
(* not, dijkstra and dijkstra_with_path raise an invalid-input error (the  *)
(* ValueError of the weight when the start node is a key, else the         *)
(* KeyError of the start node), and the run that raises has made no        *)
(* distances and popped nothing from the priority queue.                   *)
C12_NegativeWeightRejected ==
    (/\ pc = "done"
     /\ call.op \in {"dijkstra", "dijkstra_with_path"}
     /\ NegativeEdge(graph)) =>
        /\ result.status \in InvalidInput
        /\ call.start_node \in Keys(graph) => result.status = "ValueError"
        /\ RunOfCall.status = result.status
        /\ ~RunOfCall.recorded
        /\ RunOfCall.pops = 0

(* dijkstra raised the error of the weight for a negative edge that leaves *)
(* a node the start node does not reach.                                   *)
C12_Witness ==
    /\ Done("dijkstra")
    /\ result.status = "ValueError"
    /\ \E k \in Keys(graph) :
          /\ Distance(graph, call.start_node, k) = Inf
          /\ \E e \in Range(graph.adj[k]) : e[2] < 0

(* The pair (d, path) is right for the end node t, ref being the distance  *)
(* dijkstra gives t from s, or infinity when t is not a node of the graph. *)
RightPath(g, s, t, d, path, ref) ==
    /\ d = ref
    /\ d = Distance(g, s, t)
    /\ IF ref # Inf
       THEN /\ path # <<>>
            /\ path[1] = s
            /\ path[Len(path)] = t
            /\ \A i \in 1 .. (Len(path) - 1) : MinEdge(g, path[i], path[i + 1]) # Inf
            /\ PathWeight(g, path, 1) = d
            /\ s = t => (path = <<s>> /\ d = 0)
       ELSE path = <<>>

(* C13: on a graph without negative weights, from a start node s that is a *)
(* key, dijkstra_with_path(graph, s, t) returns (d, path): when t is a     *)
(* node that s reaches, d is dijkstra(graph, s)[t], the shortest distance, *)
(* and path leads from s to t along edges of the graph whose weights sum   *)
(* to d ([s] and 0 when t is s); otherwise it returns (infinity, []).      *)
C13_DijkstraWithPath ==
    (/\ Done("dijkstra_with_path")
     /\ ~NegativeEdge(graph)
     /\ call.start_node \in Keys(graph)) =>
        /\ result.status = "ok"
        /\ Eager(LAMBDA ref : RightPath(graph, call.start_node, call.end_node,
                                        result.value[1], result.value[2], ref),
                 IF call.end_node \in WeightedVertices(graph)
                 THEN dijkstra(graph, call.start_node).value[call.end_node]
                 ELSE Inf)

(* dijkstra_with_path left the loop at the end node with entries still in  *)
(* the priority queue, and returned a path to another node.                *)
C13_Witness ==
    /\ Done("dijkstra_with_path")
    /\ result.status = "ok"
    /\ Len(result.value[2]) >= 2
    /\ LET st == PathLoop(graph, PathInit(graph, call.start_node), call.end_node)
       IN st.broken /\ st.pq # <<>>

(* C14: all_topological_sorts returns every valid topological ordering of  *)
(* the vertices (every arrangement of all vertices in which each edge      *)
(* leads from an earlier to a later place) exactly once and nothing else,  *)
(* so the empty list for a graph with a cycle; also when a list of         *)
(* neighbours names a node more than once.                                 *)
C14_AllTopologicalSorts ==
    Done("all_topological_sorts") =>
        /\ Range(result.value) \subseteq IterationOrders(Vertices(graph))
        /\ \A p \in IterationOrders(Vertices(graph)) :
              Cardinality(Occurrences(result.value, p)) =
                  IF IsTopologicalOrder(graph, p) THEN 1 ELSE 0

(* ------------------------- edge walks, by definition -------------------- *)

(* How many of the pairs of a list join a and b, in either direction. *)
PairCount(pairs, a, b) ==
    Cardinality({i \in DOMAIN pairs : {pairs[i][1], pairs[i][2]} = {a, b}})

(* The consecutive pairs of a list of nodes. *)
Steps(path) == [i \in 1 .. Len(path) - 1 |-> <<path[i], path[i + 1]>>]

(* The degree of a node: the edge ends at it (a loop has two). *)
DegreeOf(es, v) == Cardinality({e \in (DOMAIN es) \X {1, 2} : es[e[1]][e[2]] = v})

OddNodes(n, es) == {v \in 0 .. n - 1 : DegreeOf(es, v) % 2 = 1}

(* C15: a non-empty list returned by find_eularian_path has len(edges) + 1 *)
(* nodes, and its consecutive pairs, taken unordered, are the input edges, *)
(* each as many times as it is in the input.                               *)
C15_EularianPathUsesEveryEdge ==
    (Done("find_eularian_path") /\ result.value # <<>>) =>
        /\ Len(result.value) = Len(edges) + 1
        /\ \A a \in PathNodes, b \in PathNodes :
              PairCount(Steps(result.value), a, b) = PairCount(edges, a, b)

(* C16: has_eularian_path returns True exactly when 0 or 2 nodes have odd  *)
(* degree, and find_eularian_path itself returns the empty list when more  *)
(* than two nodes have odd degree.                                         *)
C16_ParityRule ==
    /\ Done("has_eularian_path") =>
          result.value = (Cardinality(OddNodes(num_nodes, edges)) \in {0, 2})
    /\ (Done("find_eularian_path") /\ Cardinality(OddNodes(num_nodes, edges)) > 2) =>
          result.value = <<>>

(* find_eularian_path was called on an edge list with four odd nodes. *)
C16_Witness ==
    /\ Done("find_eularian_path")
    /\ Cardinality(OddNodes(num_nodes, edges)) > 2
    /\ result.value = <<>>

(* ------------------------ node paths, by definition --------------------- *)

(* An input edge joins a and b. *)
Joined(es, a, b) == PairCount(es, a, b) > 0

(* A list of all n nodes, each once, in which an edge joins neighbours. *)
IsHamiltonianPath(n, es, path) ==
    /\ Len(path) = n
    /\ Range(path) = 0 .. n - 1
    /\ \A i \in 1 .. Len(path) - 1 : Joined(es, path[i], path[i + 1])

HasHamiltonianPath(n, es) ==
    \E path \in IterationOrders(0 .. n - 1) : IsHamiltonianPath(n, es, path)

(* C17: with num_nodes >= 1, find_hamiltonian_path returns a list of all   *)
(* num_nodes nodes, each once, with an input edge between consecutive      *)
(* nodes, if there is such a list, and the empty list if there is none;    *)
(* has_hamiltonian_path returns True exactly when there is one, which is   *)
(* when find_hamiltonian_path returns a non-empty list.                    *)
C17_HamiltonianPath ==
    /\ (Done("find_hamiltonian_path") /\ num_nodes >= 1) =>
          IF HasHamiltonianPath(num_nodes, edges)
          THEN IsHamiltonianPath(num_nodes, edges, result.value)
          ELSE result.value = <<>>
    /\ (Done("has_hamiltonian_path") /\ num_nodes >= 1) =>
          /\ result.value = HasHamiltonianPath(num_nodes, edges)
          /\ result.value = (find_hamiltonian_path(num_nodes, edges) # <<>>)

(* A path found after a first choice of neighbour was taken back. *)
C17_Witness ==
    /\ Done("find_hamiltonian_path")
    /\ num_nodes >= 3
    /\ Len(result.value) = num_nodes
    /\ result.value[1] # 0

(* ---------------------------- trees, by definition ---------------------- *)

(* The nodes one edge away from a node of S, in either direction. *)
TreeNeighbours(t, S) ==
    {v \in TreeNodes(t) : \E u \in S : v \in Range(t.children[u]) \/ u \in Range(t.children[v])}

(* The nodes at most k edges away from node a: a breadth first search. *)
RECURSIVE Within(_, _, _)
Within(t, a, k) ==
    IF k = 0 THEN {a}
    ELSE Eager(LAMBDA S : S \cup TreeNeighbours(t, S), Within(t, a, k - 1))

(* The number of edges between a and b. *)
TreeDistance(t, a, b) ==
    CHOOSE k \in 0 .. Cardinality(TreeNodes(t)) :
        /\ b \in Within(t, a, k)
        /\ \A j \in 0 .. k - 1 : b \notin Within(t, a, j)

(* The largest distance from a to a node of the tree. *)
Eccentricity(t, a) ==
    CHOOSE k \in 0 .. Cardinality(TreeNodes(t)) :
        /\ Within(t, a, k) = TreeNodes(t)
        /\ \A j \in 0 .. k - 1 : Within(t, a, j) # TreeNodes(t)

MaxOf(S) == CHOOSE x \in S : \A y \in S : y <= x

(* The tree of the example: 1 -> {2, 3, 4}, 2 -> {5, 6}, 4 -> {7}. *)
SampleTree ==
    [children |-> << <<2, 3, 4>>, <<5, 6>>, <<>>, <<7>>, <<>>, <<>>, <<>> >>]

(* C18: tree_diameter returns the largest number of edges between two      *)
(* nodes of the tree, the edges taken in both directions: 0 for a single   *)
(* node and 4 for the tree of the example.                                 *)
C18_TreeDiameter ==
    Done("tree_diameter") =>
        /\ result.value =
              MaxOf({TreeDistance(root, a, b) : a \in TreeNodes(root), b \in TreeNodes(root)})
        /\ Len(root.children) = 1 => result.value = 0
        /\ root = SampleTree => result.value = 4

(* tree_diameter was called on the tree of the example. *)
C18_Witness == Done("tree_diameter") /\ root = SampleTree /\ result.value = 4

(* C19: calculate_longest_paths maps the value of every node to the        *)
(* largest number of edges between the node and a node of the tree, the    *)
(* edges taken in both directions; the largest value of the map is the     *)
(* result of tree_diameter on the same tree.                               *)
C19_LongestPaths ==
    Done("calculate_longest_paths") =>
        /\ DOMAIN result.value = TreeNodes(root)
        /\ \A a \in TreeNodes(root) : result.value[a] = Eccentricity(root, a)
        /\ MaxOf(Range(result.value)) = tree_diameter(root)

(* calculate_longest_paths was called on the tree of the example: the     *)
(* longest path from node 2 goes up to the root and down to node 7.        *)
C19_Witness ==
    /\ Done("calculate_longest_paths")
    /\ root = SampleTree
    /\ result.value = <<2, 3, 3, 3, 4, 4, 4>>

(* The nodes of the subtree of u. *)
RECURSIVE Subtree(_, _)
Subtree(t, u) == {u} \cup UNION {Subtree(t, c) : c \in Range(t.children[u])}

(* The nodes on the path from the root to a: those with a in their subtree. *)
AncestorsOrSelf(t, a) == {u \in TreeNodes(t) : a \in Subtree(t, u)}

(* The deepest of a set of nodes of one root path: the one below the others. *)
Deepest(t, S) == CHOOSE u \in S : \A w \in S : u \in Subtree(t, w)

(* C20: lowest_common_ancestor returns None exactly when one of the two    *)
(* nodes is not in the tree; otherwise it returns the deepest node that is *)
(* on the paths from the root to both, which is the first node when that   *)
(* is an ancestor of the second or the second itself; and the result is    *)
(* the same with the two nodes swapped.                                    *)
C20_LowestCommonAncestor ==
    Done("lowest_common_ancestor") =>
        /\ result.status = "None" <=>
              (call.node1 \notin TreeNodes(root) \/ call.node2 \notin TreeNodes(root))
        /\ result.status # "None" =>
              /\ result.value = Deepest(root, AncestorsOrSelf(root, call.node1)
                                                \cap AncestorsOrSelf(root, call.node2))
              /\ call.node1 \in AncestorsOrSelf(root, call.node2) =>
                    result.value = call.node1
        /\ Eager(LAMBDA swapped : /\ swapped.status = result.status
                                  /\ swapped.status # "None" => swapped.value = result.value,
                 lowest_common_ancestor(root, 1, call.node2, call.node1))

(* Two nodes of different branches, below a node that is not the root. *)
C20_Witness ==
    /\ Done("lowest_common_ancestor")
    /\ result.status = "ok"
    /\ result.value \notin {1, call.node1, call.node2}

(* ------------------------- the caller's arguments ----------------------- *)

(* C21: after kruskals_algorithm and after find_eularian_path return, the  *)
(* caller's edges list holds the edges it held when the call was made, in  *)
(* the same order.                                                         *)
C21_InputUnchanged ==
    (Done("kruskals_algorithm") \/ Done("find_eularian_path")) => edges = call.edges

(* ------------------------- the start node, checked ---------------------- *)

ShortestPathCall == Done("dijkstra") \/ Done("bellman_ford") \/ Done("spfa")

(* C22: dijkstra, bellman_ford and spfa fail when the start node is        *)
(* neither a key nor the target of an edge, and accept a start node that   *)
(* is only the target of an edge, which then has distance 0 (dijkstra on   *)
(* a graph without a negative weight).                                     *)
C22_StartNodeValidation ==
    ShortestPathCall =>
        /\ call.start_node \notin WeightedVertices(graph) => result.status \in InvalidInput
        /\ (/\ call.start_node \in WeightedVertices(graph) \ Keys(graph)
            /\ Done("dijkstra") => ~HasNegativeWeight(graph)) =>
              /\ result.status = "ok"
              /\ result.value[call.start_node] = 0

(* The nodes a directed path of weighted edges (of any length, none        *)
(* included) leads to from a node of S.                                    *)
RECURSIVE WeightedReachableFrom(_, _)
WeightedReachableFrom(g, S) ==
    LET T == S \cup {e[1] : e \in UNION {Range(Get(g, n)) : n \in S}}
    IN IF T = S THEN S ELSE WeightedReachableFrom(g, T)

(* C23: a distance map returned by dijkstra, bellman_ford or spfa has the  *)
(* keys of the graph and the targets of its edges as its keys, 0 for the   *)
(* start node when no negative cycle is reachable, and infinity for every  *)
(* node no path leads to from the start node.                              *)
C23_DistanceMapKeys ==
    (ShortestPathCall /\ result.status = "ok") =>
        /\ DOMAIN result.value = WeightedVertices(graph)
        /\ result.value[call.start_node] # 0 => NegativeCycleFrom(graph, call.start_node)
        /\ \A v \in WeightedVertices(graph) \ WeightedReachableFrom(graph, {call.start_node}) :
              result.value[v] = Inf

(* A map returned with an edge target that is not a key and is not reached. *)
C23_Witness ==
    /\ ShortestPathCall
    /\ result.status = "ok"
    /\ \E v \in WeightedVertices(graph) \ Keys(graph) :
          /\ v \notin WeightedReachableFrom(graph, {call.start_node})
          /\ result.value[v] = Inf

(* ----------------------- eularian paths, by definition ------------------ *)

(* The nodes an edge ends at. *)
EdgeEnds(es) == {es[i][k] : i \in DOMAIN es, k \in {1, 2}}

(* The nodes joined to a node of S by a walk along the edges. *)
RECURSIVE EdgeReachable(_, _)
EdgeReachable(es, S) ==
    LET T == S \cup {v \in EdgeEnds(es) : \E u \in S : PairCount(es, u, v) > 0}
    IN IF T = S THEN S ELSE EdgeReachable(es, T)

(* All edges lie in one connected component. *)
EdgesConnected(es) ==
    \A u \in EdgeEnds(es), v \in EdgeEnds(es) : v \in EdgeReachable(es, {u})

(* C24: when 0 or 2 nodes have odd degree and all edges lie in one         *)
(* connected component, find_eularian_path returns len(edges) + 1 nodes    *)
(* whose consecutive pairs, taken unordered, are the input edges, each as  *)
(* many times as it is in the input; the first node has odd degree if a    *)
(* node has.                                                               *)
C24_EularianPathFound ==
    (/\ Done("find_eularian_path")
     /\ Cardinality(OddNodes(num_nodes, edges)) \in {0, 2}
     /\ EdgesConnected(edges)) =>
        /\ Len(result.value) = Len(edges) + 1
        /\ \A a \in PathNodes, b \in PathNodes :
              PairCount(Steps(result.value), a, b) = PairCount(edges, a, b)
        /\ OddNodes(num_nodes, edges) # {} => result.value[1] \in OddNodes(num_nodes, edges)

(* ------------------------ level order, by definition -------------------- *)

(* The nodes at most k edges away from s. *)
RECURSIVE HopBall(_, _, _)
HopBall(g, s, k) ==
    IF k = 0 THEN {s}
    ELSE Eager(LAMBDA B : B \cup Successors(g, B), HopBall(g, s, k - 1))

(* The least number of edges of a path from s to v, v being reachable. *)
HopDistance(g, s, v) ==
    CHOOSE k \in 0 .. Cardinality(Vertices(g)) :
        v \in HopBall(g, s, k) /\ (k = 0 \/ v \notin HopBall(g, s, k - 1))

(* The first position of x in a list. *)
FirstIndex(s, x) == CHOOSE i \in DOMAIN s : s[i] = x /\ \A j \in 1 .. i - 1 : s[j] # x

(* The position in the order of the node the i-th node was discovered      *)
(* from: the first node of the order with an edge to it.                   *)
DiscoveredFrom(g, order, i) ==
    CHOOSE k \in DOMAIN order :
        /\ order[i] \in Range(Get(g, order[k]))
        /\ \A j \in 1 .. k - 1 : order[i] \notin Range(Get(g, order[j]))

(* C25: in the list breadth_first_search returns a node is never before a  *)
(* node that is fewer edges away from the start node, and two nodes        *)
(* discovered from the same node are in the order of that node's           *)
(* adjacency list.                                                         *)
C25_BfsLevelOrder ==
    Done("breadth_first_search") =>
        LET order == result.value
        IN \A i \in DOMAIN order, j \in DOMAIN order :
              i < j =>
                /\ HopDistance(graph, call.start_node, order[i])
                      <= HopDistance(graph, call.start_node, order[j])
                /\ (i > 1 /\ DiscoveredFrom(graph, order, i) = DiscoveredFrom(graph, order, j)) =>
                      LET ns == Get(graph, order[DiscoveredFrom(graph, order, i)])
                      IN FirstIndex(ns, order[i]) < FirstIndex(ns, order[j])

(* Two nodes discovered from one node, whose list names the larger first.  *)
C25_Witness ==
    /\ Done("breadth_first_search")
    /\ \E i \in DOMAIN result.value, j \in DOMAIN result.value :
          /\ 1 < i
          /\ i < j
          /\ result.value[i] > result.value[j]
          /\ DiscoveredFrom(graph, result.value, i) = DiscoveredFrom(graph, result.value, j)

(* ---------------------- the queues of calls in progress ----------------- *)

(* No element is in a list twice. *)
NoDuplicates(s) == \A i \in DOMAIN s, j \in DOMAIN s : s[i] = s[j] => i = j

BfsRunning == call.op = "breadth_first_search" /\ pc \in {"while", "for"}

(* C26: while breadth_first_search runs, no node is in the queue twice or  *)
(* in the output order twice, every node in the queue is in visited, no    *)
(* node is in the queue and in the output order, and visited is the nodes  *)
(* of the output order together with the nodes of the queue: a node is     *)
(* queued at most once.                                                    *)
C26_BfsQueuedOnce ==
    BfsRunning =>
        /\ NoDuplicates(locals.st.queue)
        /\ NoDuplicates(locals.st.order)
        /\ Range(locals.st.queue) \subseteq locals.st.visited
        /\ Range(locals.st.queue) \cap Range(locals.st.order) = {}
        /\ locals.st.visited = Range(locals.st.order) \cup Range(locals.st.queue)

(* In the loop over the neighbours, two nodes queued and one neighbour     *)
(* found visited already.                                                  *)
C26_Witness ==
    /\ BfsRunning
    /\ pc = "for"
    /\ Len(locals.st.queue) >= 2
    /\ locals.i > 1
    /\ \E k \in 1 .. locals.i - 1 :
          Get(graph, locals.current_node)[k] \in Range(locals.st.order)

(* The steps end with the list breadth_first_search returns. *)
BfsStepsReturn ==
    Done("breadth_first_search") =>
        result.value = breadth_first_search(graph, call.start_node)

SpfaRunning == call.op = "spfa" /\ pc \in {"while", "for"}

(* The steps end as spfa ends. *)
SpfaStepsReturn == Done("spfa") => result = spfa(graph, call.start_node)

(* C27: while spfa runs, no node is in the queue twice and in_queue[v] is  *)
(* true exactly for the nodes in the queue; and a step appends a node to   *)
(* the queue only when it has lowered the distance of that node.           *)
C27_SpfaQueue ==
    /\ [](SpfaRunning =>
             /\ NoDuplicates(locals.st.queue)
             /\ \A v \in DOMAIN locals.st.in_queue :
                   locals.st.in_queue[v] <=> v \in Range(locals.st.queue))
    /\ [][(SpfaRunning /\ Len(locals'.st.queue) > Len(locals.st.queue)) =>
             /\ locals'.st.queue = Append(locals.st.queue, Get(graph, locals.u)[locals.i][1])
             /\ locals'.st.distances[Get(graph, locals.u)[locals.i][1]]
                   < locals.st.distances[Get(graph, locals.u)[locals.i][1]]]_vars

(* A node in the queue whose distance was lowered a second time.           *)
C27_Witness ==
    /\ SpfaRunning
    /\ pc = "for"
    /\ \E v \in Range(locals.st.queue) : locals.st.relax_count[v] >= 2

(* The successful relaxations of a call so far. *)
RECURSIVE SumOver(_, _)
SumOver(f, S) ==
    IF S = {} THEN 0
    ELSE LET x == CHOOSE y \in S : TRUE IN f[x] + SumOver(f, S \ {x})

Relaxations == SumOver(locals.st.relax_count, DOMAIN locals.st.relax_count)

SpfaBegun == call.op = "spfa" /\ pc # "done"

(* C28: a call of spfa ends, with distances or with an error, also when a  *)
(* negative cycle is reachable; while it runs no node has been relaxed     *)
(* more than |V| - 1 times, and it has made at most |V| * (|V| - 1) + 1    *)
(* successful relaxations in all when it ends.                             *)
C28_SpfaTerminates ==
    /\ SpfaBegun ~> pc = "done"
    /\ [](SpfaRunning =>
             \A v \in DOMAIN locals.st.relax_count :
                 locals.st.relax_count[v] <= Cardinality(WeightedVertices(graph)) - 1)
    /\ [](call.op = "spfa" /\ pc # "input" /\ call.start_node \in WeightedVertices(graph) =>
             Relaxations <= Cardinality(WeightedVertices(graph))
                              * (Cardinality(WeightedVertices(graph)) - 1) + 1)

(* A call ended by the error, at its last allowed relaxation. *)
C28_Witness ==
    /\ Done("spfa")
    /\ call.start_node \in WeightedVertices(graph)
    /\ result.status = "ValueError"
    /\ \E v \in WeightedVertices(graph) :
          locals.st.relax_count[v] = Cardinality(WeightedVertices(graph))

(* ------------------------ disjoint sets, by definition ------------------ *)

(* The element k parent pointers above u. *)
RECURSIVE Up(_, _, _)
Up(ds, u, k) == IF k = 0 THEN u ELSE ds.parent[Up(ds, u, k - 1)]

(* The parent pointers lead from every element to a root. *)
Forest(ds) ==
    \A u \in DOMAIN ds.parent :
        \E k \in 0 .. Cardinality(DOMAIN ds.parent) - 1 :
            ds.parent[Up(ds, u, k)] = Up(ds, u, k)

(* The representative of u: the root above it. *)
Representative(ds, u) == Up(ds, u, Cardinality(DOMAIN ds.parent))

(* find(u) == find(v), the second find made after the first. *)
SameFind(ds, u, v) ==
    DisjointSetFind(ds, u).root = DisjointSetFind(DisjointSetFind(ds, u).ds, v).root

(* What holds of a DisjointSet between the calls. *)
DisjointSetInvariant ==
    /\ Forest(self)
    /\ \A u \in DOMAIN self.parent, v \in DOMAIN self.parent :
          SameFind(self, u, v) <=> \E S \in edges : u \in S /\ v \in S

(* A find call changes no representative. *)
FindKeepsRepresentatives ==
    call'.op = "find" =>
        \A x \in DOMAIN self.parent : Representative(self', x) = Representative(self, x)

(* C29, as stated: find(u) == find(v) exactly when the unions made so far  *)
(* connect u and v; find changes no representative; the parent pointers    *)
(* form a forest; and a union of two elements of one set changes nothing,  *)
(* parent and rank being after the call what they were before.             *)
C29_DisjointSetUnchanged ==
    /\ []DisjointSetInvariant
    /\ [][FindKeepsRepresentatives]_vars
    /\ [][(call'.op = "union" /\ call'.root_u = call'.root_v) => self' = self]_vars

(* C29: find(u) == find(v) exactly when the unions made so far connect u   *)
(* and v; find changes no representative; the parent pointers form a       *)
(* forest; and a union of two elements of one set changes no               *)
(* representative and no rank (it may shorten the paths to the root).      *)
C29_DisjointSetRepresentatives ==
    /\ []DisjointSetInvariant
    /\ [][FindKeepsRepresentatives]_vars
    /\ [][(call'.op = "union" /\ call'.root_u = call'.root_v) =>
             /\ self'.rank = self.rank
             /\ \A x \in DOMAIN self.parent :
                   Representative(self', x) = Representative(self, x)]_vars

(* A union of two distinct elements of one set of four, made by three      *)
(* unions, after which every element points at the root.                   *)
C29_Witness ==
    /\ call.op = "union"
    /\ call.u # call.v
    /\ call.root_u = call.root_v
    /\ self.rank[call.root_u] = 2
    /\ \A x \in DOMAIN self.parent : self.parent[x] = call.root_u

(* --------------------- the representations, by definition --------------- *)

(* v occurs in the list of u as often as u in the list of v. *)
SymmetricLists(g) ==
    \A u \in Keys(g), v \in Keys(g) :
        u # v => Cardinality(Occurrences(g.adj[u], v)) = Cardinality(Occurrences(g.adj[v], u))

(* Every node named by a list has a list of its own. *)
ListsClosed(g) == Vertices(g) = Keys(g)

SymmetricMatrix(gm) ==
    \A u \in 0 .. gm.size - 1, v \in 0 .. gm.size - 1 :
        gm.adjacency_matrix[u][v] = gm.adjacency_matrix[v][u]

(* C30: after any add_edge calls a Graph has, for all nodes u # v, v in    *)
(* adjacency_list[u] as often as u in adjacency_list[v], num_edges is the  *)
(* number of the calls, and with the default num_nodes, num_nodes is the   *)
(* number of keys; a GraphMatrix has a symmetric matrix, and an add_edge   *)
(* that raises the out-of-bounds error leaves matrix and num_edges alone.  *)
C30_AddEdgeSymmetric ==
    /\ [](self.class = "Graph" =>
             /\ ListsClosed(self.adjacency_list)
             /\ SymmetricLists(self.adjacency_list)
             /\ self.num_edges = Len(edges)
             /\ (num_nodes = 0 =>
                    self.num_nodes = Cardinality(Keys(self.adjacency_list))))
    /\ [](self.class = "GraphMatrix" => SymmetricMatrix(self))
    /\ [][(call'.op = "GraphMatrix.add_edge" /\ result'.status = "ValueError") =>
             /\ self'.adjacency_matrix = self.adjacency_matrix
             /\ self'.num_edges = self.num_edges]_vars

(* A default Graph after an edge, the same edge the other way round, and a *)
(* self-loop.                                                              *)
C30_Witness ==
    /\ self.class = "Graph"
    /\ num_nodes = 0
    /\ edges = <<<<0, 1>>, <<1, 0>>, <<1, 1>>>>
    /\ self.adjacency_list.adj[1] = <<0, 0, 1, 1>>
    /\ self.num_nodes = 2

(* A GraphMatrix that took an edge given by a negative index, and then     *)
(* refused one out of bounds.                                              *)
GraphMatrixRefused ==
    /\ self.class = "GraphMatrix"
    /\ self.size = 2
    /\ call.op = "GraphMatrix.add_edge"
    /\ result.status = "ValueError"
    /\ self.adjacency_matrix[0][1] = 1
    /\ self.adjacency_matrix[1][0] = 1
    /\ self.adjacency_matrix[0][0] = 0

====
